---- MODULE Spec2Model ----
(***************************************************************************)
(* CipherCourt: the per-connector checks, the four-status rollup of        *)
(* DataConnector.run_full_audit and the run summary of AuditFramework.     *)
(*                                                                         *)
(* Python dicts that are iterated (the results mapping) are sequences of   *)
(* [key, value] pairs in insertion order.  A call that raises is the       *)
(* record [raised |-> TRUE, exc |-> ...]; a call that returns is its       *)
(* result dict with raised |-> FALSE.                                      *)
(***************************************************************************)
EXTENDS Integers, Sequences, FiniteSets, TLC

VARIABLES
    conn,   \* the object under audit as constructed: a connector, or the AuditFramework
    fs,     \* the CSV file behind a local CSV connector: [exists, rows]
    now,    \* datetime.utcnow() as seconds since midnight of 2024-01-01
    call,   \* the last call made on conn: [op, arg], arg being run_audit's selection
    ret     \* what that call returned or raised

vars == <<conn, fs, now, call, ret>>

(***************************************************************************)
(* Bounds of the model.                                                    *)
(***************************************************************************)
MaxRows == 2      \* rows in a CSV file
MaxSel == 2       \* names in a run_audit selection
MaxCount == 1     \* counts a helper check reports, besides its placeholder value

(***************************************************************************)
(* Generic helpers.                                                        *)
(***************************************************************************)
Contains(seq, x) == \E i \in 1..Len(seq) : seq[i] = x

SeqsUpTo(S, n) == UNION {[1..k -> S] : k \in 0..n}

RECURSIVE Concat(_)
Concat(seqs) == IF seqs = <<>> THEN <<>> ELSE Head(seqs) \o Concat(Tail(seqs))

None == [none |-> TRUE]

\* The connectors argument of run_audit, Optional[List[str]]: None, or a list of names.
NoSelection == [given |-> FALSE, names |-> <<>>]
Selection(names) == [given |-> TRUE, names |-> names]

NoCall == [op |-> "none", arg |-> NoSelection]

Raise(exc) == [raised |-> TRUE, exc |-> exc]

(***************************************************************************)
(* base.py: AuditStatus and the rollup of run_full_audit.                  *)
(***************************************************************************)
PASS == "pass"
FAIL == "fail"
WARNING == "warning"
NOT_AVAILABLE == "not_available"

AuditStatus == {PASS, FAIL, WARNING, NOT_AVAILABLE}

CheckTypes == <<"availability", "data_quality", "timestamps", "leakage_check">>

\* A mutation of OverallStatus: NOT_AVAILABLE tested before WARNING.
OverallStatusSwapped(statuses) ==
    IF Contains(statuses, FAIL) THEN FAIL
    ELSE IF Contains(statuses, NOT_AVAILABLE) THEN NOT_AVAILABLE
    ELSE IF Contains(statuses, WARNING) THEN WARNING
    ELSE PASS

\* base.py 114-129
OverallStatus(statuses) ==
    IF Contains(statuses, FAIL) THEN FAIL
    ELSE IF Contains(statuses, WARNING) THEN WARNING
    ELSE IF Contains(statuses, NOT_AVAILABLE) THEN NOT_AVAILABLE
    ELSE PASS

\* base.py 93-131: the four checks run in order; the first that raises ends the audit.
BuildReport(source, availability, data_quality, timestamps, leakage_check) ==
    IF availability.raised THEN Raise(availability.exc)
    ELSE IF data_quality.raised THEN Raise(data_quality.exc)
    ELSE IF timestamps.raised THEN Raise(timestamps.exc)
    ELSE IF leakage_check.raised THEN Raise(leakage_check.exc)
    ELSE [raised |-> FALSE,
          source |-> source,
          availability |-> availability,
          data_quality |-> data_quality,
          timestamps |-> timestamps,
          leakage_check |-> leakage_check,
          overall_status |-> OverallStatus(<<availability.status, data_quality.status,
                                             timestamps.status, leakage_check.status>>)]

(***************************************************************************)
(* An abstract DataConnector: its four abstract checks return any status.  *)
(***************************************************************************)
AbstractResult(status) ==
    [raised |-> FALSE, status |-> status,
     issues |-> IF status = PASS THEN <<>> ELSE <<"issue: " \o status>>]

AbstractConnectors ==
    {[cls |-> "DataConnector", source |-> "source", statuses |-> s] :
        s \in [1..4 -> AuditStatus]}

(***************************************************************************)
(* Timestamps.  A CSV cell is a string; the checks parse it with           *)
(* datetime.fromisoformat(value.replace('Z', '+00:00')).  The strings the  *)
(* model uses and what each step makes of them are tabulated.              *)
(***************************************************************************)
Unparsable == "not-a-timestamp"

\* str.replace('Z', '+00:00')
replace_Z(s) ==
    CASE s = "2024-01-01T10:00:00Z" -> "2024-01-01T10:00:00+00:00"
      [] s = "2024-01-01T11:59:59Z" -> "2024-01-01T11:59:59+00:00"
      [] s = "2024-01-01T12:00:00Z" -> "2024-01-01T12:00:00+00:00"
      [] s = "2024-01-01T13:00:00Z" -> "2024-01-01T13:00:00+00:00"
      [] OTHER -> s

Aware(local, off) == [valid |-> TRUE, tz |-> TRUE, local |-> local, off |-> off]
Naive(local) == [valid |-> TRUE, tz |-> FALSE, local |-> local, off |-> 0]
ValueError == [valid |-> FALSE, tz |-> FALSE, local |-> 0, off |-> 0]

\* datetime.fromisoformat: seconds since 2024-01-01T00:00:00 and the UTC offset,
\* or ValueError.  A trailing 'Z' is not accepted (hence the replace above).
fromisoformat(s) ==
    CASE s = "2024-01-01T10:00:00+00:00" -> Aware(36000, 0)
      [] s = "2024-01-01T11:59:59+00:00" -> Aware(43199, 0)
      [] s = "2024-01-01T12:00:00+00:00" -> Aware(43200, 0)
      [] s = "2024-01-01T13:00:00+00:00" -> Aware(46800, 0)
      [] s = "2024-01-01T13:00:00+01:00" -> Aware(46800, 3600)
      [] s = "2024-01-01T14:00:00+01:00" -> Aware(50400, 3600)
      [] s = "2024-01-01T11:59:59" -> Naive(43199)
      [] s = "2024-01-01T12:00:00" -> Naive(43200)
      [] s = "2024-01-01T13:00:00" -> Naive(46800)
      [] OTHER -> ValueError

ParseTs(value) == fromisoformat(replace_Z(value))

\* The instant an aware datetime denotes (its local time for a naive one).
Utc(dt) == dt.local - dt.off

\* datetime comparison and subtraction: naive against aware raises TypeError.
Comparable(a, b) == a.tz = b.tz

(***************************************************************************)
(* CSV rows.  csv.DictReader gives every row of a file the header's keys;  *)
(* a cell is a string.  row.get(f) of an absent key is None, which every   *)
(* use in the connectors tests for truthiness before anything else, as it  *)
(* does the empty string.                                                  *)
(***************************************************************************)
get(row, f) == IF f \in DOMAIN row THEN row[f] ELSE ""

Truthy(v) == v # ""

SameHeader(rows) == \A i, j \in 1..Len(rows) : DOMAIN rows[i] = DOMAIN rows[j]

\* str.join
RECURSIVE Join(_, _)
Join(sep, seq) ==
    IF seq = <<>> THEN ""
    ELSE IF Len(seq) = 1 THEN seq[1]
    ELSE seq[1] \o sep \o Join(sep, Tail(seq))

\* local_csv_odds.py 28-45, local_csv_match_results.py 29-45: __init__ and _load_data
LoadData(csv_path, file) ==
    IF ~Truthy(csv_path) THEN <<>>
    ELSE IF ~file.exists THEN <<>>
    ELSE file.rows

NewCSVConnector(cls, csv_path, file) ==
    [cls |-> cls, csv_path |-> csv_path, data |-> LoadData(csv_path, file)]

OddsSource == "local_csv_odds"
ResultsSource == "local_csv_match_results"

NoDataLoaded ==
    [raised |-> FALSE, status |-> NOT_AVAILABLE, issues |-> <<"No data loaded">>,
     checks |-> <<>>]

(***************************************************************************)
(* local_csv_odds.py: LocalCSVOddsConnector.                               *)
(***************************************************************************)
OddsRequiredFields ==
    <<"match_id", "snapshot_timestamp", "player1_odds", "player2_odds",
      "bookmaker", "available_at", "match_start_time">>

\* float(cell) in hundredths, or an error (ValueError for text, TypeError for None)
float(s) ==
    CASE s = "0.50" -> [valid |-> TRUE, val |-> 50]
      [] s = "1.00" -> [valid |-> TRUE, val |-> 100]
      [] s = "1.50" -> [valid |-> TRUE, val |-> 150]
      [] s = "2.50" -> [valid |-> TRUE, val |-> 250]
      [] OTHER -> [valid |-> FALSE, val |-> 0]

FirstN(seq, n) == IF Len(seq) <= n THEN seq ELSE SubSeq(seq, 1, n)

\* local_csv_odds.py 50-77
odds_check_availability(c, file) ==
    IF ~Truthy(c.csv_path)
    THEN [raised |-> FALSE, status |-> NOT_AVAILABLE,
          issues |-> <<"No CSV path configured">>, details |-> <<>>]
    ELSE IF ~file.exists
    THEN [raised |-> FALSE, status |-> NOT_AVAILABLE,
          issues |-> <<"CSV file not found: " \o c.csv_path>>, details |-> <<>>]
    ELSE [raised |-> FALSE, status |-> PASS, issues |-> <<>>,
          details |-> [csv_path |-> c.csv_path,
                       records_loaded |-> Len(c.data),
                       unique_matches |->
                           Cardinality({get(c.data[i], "match_id") : i \in 1..Len(c.data)}
                                       \ {""})]]

\* a variant that takes every required field to be present in the first record
MissingFieldsNone(required, first_row) ==
    SelectSeq(required, LAMBDA f : FALSE)

MissingFields(required, first_row) ==
    SelectSeq(required, LAMBDA f : f \notin DOMAIN first_row)

\* a variant that looks for empty required fields in the first record only
IncompleteCountOfFirst(required, data) ==
    Cardinality({i \in {1} :
                    \E k \in 1..Len(required) : ~Truthy(get(data[i], required[k]))})

IncompleteCount(required, data) ==
    Cardinality({i \in 1..Len(data) :
                    \E k \in 1..Len(required) : ~Truthy(get(data[i], required[k]))})

\* local_csv_odds.py 133-144: the entries one row adds to invalid_odds
InvalidOddsOfRow(row) ==
    LET match_id == get(row, "match_id")
        p1 == float(get(row, "player1_odds"))
        p2 == float(get(row, "player2_odds"))
    IN  IF ~p1.valid \/ ~p2.valid THEN <<match_id \o ": invalid odds format">>
        ELSE (IF p1.val < 100 THEN <<match_id \o ": player1_odds < 1.0">> ELSE <<>>)
             \o (IF p2.val < 100 THEN <<match_id \o ": player2_odds < 1.0">> ELSE <<>>)

\* local_csv_odds.py 79-155
odds_audit_data_quality(c) ==
    IF c.data = <<>> THEN NoDataLoaded
    ELSE
    LET missing_fields == MissingFields(OddsRequiredFields, c.data[1])
        incomplete_count == IncompleteCount(OddsRequiredFields, c.data)
        invalid_odds == Concat([i \in 1..Len(c.data) |-> InvalidOddsOfRow(c.data[i])])
    IN  IF missing_fields # <<>>
        THEN [raised |-> FALSE, status |-> FAIL,
              issues |-> <<"Missing required fields: " \o Join(", ", missing_fields)>>,
              checks |-> [required_fields |-> [missing |-> missing_fields, status |-> "fail"]]]
        ELSE [raised |-> FALSE,
              status |-> IF invalid_odds # <<>> \/ incomplete_count > 0 THEN WARNING ELSE PASS,
              issues |->
                  (IF incomplete_count > 0
                   THEN <<"Found " \o ToString(incomplete_count) \o " incomplete snapshots">>
                   ELSE <<>>)
                  \o (IF invalid_odds # <<>>
                      THEN <<"Found " \o ToString(Len(invalid_odds)) \o " invalid odds values">>
                      ELSE <<>>),
              checks |-> [required_fields |-> [missing |-> missing_fields, status |-> "pass"],
                          completeness |->
                              [total_snapshots |-> Len(c.data),
                               complete_snapshots |-> Len(c.data) - incomplete_count,
                               incomplete_count |-> incomplete_count],
                          odds_validity |->
                              [invalid_count |-> Len(invalid_odds),
                               examples |-> FirstN(invalid_odds, 5)]]]

\* local_csv_odds.py 172-188: the entries one row adds to invalid_timestamps
InvalidTimestampsOfRow(row, fields) ==
    LET match_id == get(row, "match_id")
        bad(f) == Truthy(get(row, f)) /\ ~ParseTs(get(row, f)).valid
    IN  Concat([k \in 1..Len(fields) |->
                   IF bad(fields[k]) THEN <<match_id \o ": invalid " \o fields[k]>>
                   ELSE <<>>])

\* local_csv_odds.py 157-199
odds_check_timestamps(c) ==
    IF c.data = <<>> THEN NoDataLoaded
    ELSE
    LET invalid_timestamps ==
            Concat([i \in 1..Len(c.data) |->
                       InvalidTimestampsOfRow(c.data[i],
                           <<"snapshot_timestamp", "available_at", "match_start_time">>)])
    IN  [raised |-> FALSE,
         status |-> IF invalid_timestamps # <<>> THEN FAIL ELSE PASS,
         issues |-> IF invalid_timestamps # <<>>
                    THEN <<"Found " \o ToString(Len(invalid_timestamps))
                           \o " invalid timestamps">>
                    ELSE <<>>,
         checks |-> [timestamp_format |->
                        [invalid_count |-> Len(invalid_timestamps),
                         examples |-> FirstN(invalid_timestamps, 5)]]]

\* local_csv_odds.py 222-256: one pass of the loop body.  exc is the exception the
\* try block ended with: ValueError is caught (the rest of the row is skipped),
\* TypeError is not.
OddsLeakRow(row) ==
    LET match_id == get(row, "match_id")
        snapshot_ts == get(row, "snapshot_timestamp")
        available_at == get(row, "available_at")
        match_start == get(row, "match_start_time")
        avail_dt == ParseTs(available_at)
        start_dt == ParseTs(match_start)
        snap_dt == ParseTs(snapshot_ts)
        violation == [match_id |-> match_id,
                      available_at |-> available_at,
                      match_start_time |-> match_start,
                      snapshot_timestamp |-> snapshot_ts,
                      delay_seconds |-> Utc(avail_dt) - Utc(start_dt)]
        late == [match_id |-> match_id,
                 snapshot_timestamp |-> snapshot_ts,
                 match_start_time |-> match_start]
        first ==
            IF ~(Truthy(available_at) /\ Truthy(match_start))
            THEN [exc |-> "none", post |-> <<>>]
            ELSE IF ~avail_dt.valid \/ ~start_dt.valid
            THEN [exc |-> "ValueError", post |-> <<>>]
            ELSE IF ~Comparable(avail_dt, start_dt)
            THEN [exc |-> "TypeError", post |-> <<>>]
            ELSE IF Utc(avail_dt) >= Utc(start_dt)
            THEN [exc |-> "none", post |-> <<violation>>]
            ELSE [exc |-> "none", post |-> <<>>]
        second ==
            IF first.exc # "none"
            THEN [exc |-> first.exc, late |-> <<>>]
            ELSE IF ~(Truthy(snapshot_ts) /\ Truthy(match_start))
            THEN [exc |-> "none", late |-> <<>>]
            ELSE IF ~snap_dt.valid \/ ~start_dt.valid
            THEN [exc |-> "ValueError", late |-> <<>>]
            ELSE IF ~Comparable(snap_dt, start_dt)
            THEN [exc |-> "TypeError", late |-> <<>>]
            ELSE IF Utc(snap_dt) >= Utc(start_dt)
            THEN [exc |-> "none", late |-> <<late>>]
            ELSE [exc |-> "none", late |-> <<>>]
    IN  [exc |-> second.exc, post |-> first.post, late |-> second.late]

\* local_csv_odds.py 219-256: the loop over self.data
RECURSIVE OddsLeakLoop(_, _, _)
OddsLeakLoop(rows, post_match_odds, late_snapshots) ==
    IF rows = <<>>
    THEN [raised |-> FALSE, post_match_odds |-> post_match_odds,
          late_snapshots |-> late_snapshots]
    ELSE LET r == OddsLeakRow(Head(rows))
         IN  IF r.exc = "TypeError" THEN Raise("TypeError")
             ELSE OddsLeakLoop(Tail(rows), post_match_odds \o r.post,
                               late_snapshots \o r.late)

\* local_csv_odds.py 268-282
OddsLeakageVerdict(post_match_odds, late_snapshots) ==
    LET first == IF post_match_odds # <<>> THEN FAIL ELSE PASS
    IN  [status |-> IF late_snapshots # <<>>
                    THEN (IF first # FAIL THEN FAIL ELSE first)
                    ELSE first,
         issues |->
            (IF post_match_odds # <<>>
             THEN <<"CRITICAL LEAKAGE DETECTED: " \o ToString(Len(post_match_odds))
                    \o " odds snapshots have available_at >= match_start_time (look-ahead bias)">>
             ELSE <<>>)
            \o (IF late_snapshots # <<>>
                THEN <<"CRITICAL LEAKAGE DETECTED: " \o ToString(Len(late_snapshots))
                       \o " odds snapshots have snapshot_timestamp >= match_start_time">>
                ELSE <<>>)]

\* local_csv_odds.py 201-284
odds_detect_leakage(c) ==
    IF c.data = <<>> THEN NoDataLoaded
    ELSE
    LET loop == OddsLeakLoop(c.data, <<>>, <<>>)
    IN  IF loop.raised THEN loop
        ELSE LET verdict == OddsLeakageVerdict(loop.post_match_odds, loop.late_snapshots)
             IN  [raised |-> FALSE,
                  status |-> verdict.status,
                  issues |-> verdict.issues,
                  checks |-> [post_match_odds |->
                                 [post_match_count |-> Len(loop.post_match_odds),
                                  violations |-> loop.post_match_odds],
                              late_snapshots |->
                                 [late_count |-> Len(loop.late_snapshots),
                                  examples |-> FirstN(loop.late_snapshots, 5)]]]

(***************************************************************************)
(* local_csv_match_results.py: LocalCSVMatchResultsConnector.              *)
(***************************************************************************)
ResultsRequiredFields ==
    <<"match_id", "date", "tournament", "circuit", "player1", "player2",
      "score", "winner", "match_start_time", "available_at">>

valid_circuits == {"ATP", "Challenger", "ITF"}

\* local_csv_match_results.py 51-74
results_check_availability(c, file) ==
    IF ~Truthy(c.csv_path)
    THEN [raised |-> FALSE, status |-> NOT_AVAILABLE,
          issues |-> <<"No CSV path configured">>, details |-> <<>>]
    ELSE IF ~file.exists
    THEN [raised |-> FALSE, status |-> NOT_AVAILABLE,
          issues |-> <<"CSV file not found: " \o c.csv_path>>, details |-> <<>>]
    ELSE [raised |-> FALSE, status |-> PASS, issues |-> <<>>,
          details |-> [csv_path |-> c.csv_path, records_loaded |-> Len(c.data)]]

\* local_csv_match_results.py 76-156
results_audit_data_quality(c) ==
    IF c.data = <<>> THEN NoDataLoaded
    ELSE
    LET missing_fields == MissingFields(ResultsRequiredFields, c.data[1])
        incomplete_count == IncompleteCount(ResultsRequiredFields, c.data)
        unique_ids == {get(c.data[i], "match_id") : i \in 1..Len(c.data)}
        duplicate_count == Len(c.data) - Cardinality(unique_ids)
        invalid_circuits ==
            {get(c.data[i], "circuit") : i \in 1..Len(c.data)} \ (valid_circuits \cup {""})
    IN  IF missing_fields # <<>>
        THEN [raised |-> FALSE, status |-> FAIL,
              issues |-> <<"Missing required fields: " \o Join(", ", missing_fields)>>,
              checks |-> [required_fields |-> [missing |-> missing_fields, status |-> "fail"]]]
        ELSE [raised |-> FALSE,
              status |-> IF incomplete_count > 0 \/ duplicate_count > 0
                            \/ invalid_circuits # {}
                         THEN WARNING ELSE PASS,
              issues |->
                  (IF incomplete_count > 0
                   THEN <<"Found " \o ToString(incomplete_count) \o " incomplete records">>
                   ELSE <<>>)
                  \o (IF duplicate_count > 0
                      THEN <<"Found " \o ToString(duplicate_count) \o " duplicate match IDs">>
                      ELSE <<>>)
                  \o (IF invalid_circuits # {}
                      THEN <<"Found invalid circuit values: " \o ToString(invalid_circuits)>>
                      ELSE <<>>),
              checks |-> [required_fields |-> [missing |-> missing_fields, status |-> "pass"],
                          completeness |->
                              [total_records |-> Len(c.data),
                               complete_records |-> Len(c.data) - incomplete_count,
                               incomplete_count |-> incomplete_count],
                          duplicates |->
                              [total_records |-> Len(c.data),
                               unique_records |-> Cardinality(unique_ids),
                               duplicate_count |-> duplicate_count]]]

\* local_csv_match_results.py 174-200: one pass of the loop body.  The ordering
\* comparison sits in a try that catches ValueError only.
ResultsTimestampRow(row) ==
    LET match_id == get(row, "match_id")
        match_start == get(row, "match_start_time")
        available_at == get(row, "available_at")
        start_dt == ParseTs(match_start)
        avail_dt == ParseTs(available_at)
        both == Truthy(match_start) /\ Truthy(available_at)
                /\ start_dt.valid /\ avail_dt.valid
    IN  [exc |-> IF both /\ ~Comparable(avail_dt, start_dt) THEN "TypeError" ELSE "none",
         invalid |-> InvalidTimestampsOfRow(row, <<"match_start_time", "available_at">>),
         out_of_order |->
            IF both /\ Comparable(avail_dt, start_dt) /\ Utc(avail_dt) > Utc(start_dt)
            THEN <<match_id \o ": available_at after match_start_time">>
            ELSE <<>>]

RECURSIVE ResultsTimestampLoop(_, _, _)
ResultsTimestampLoop(rows, invalid_timestamps, out_of_order) ==
    IF rows = <<>>
    THEN [raised |-> FALSE, invalid_timestamps |-> invalid_timestamps,
          out_of_order |-> out_of_order]
    ELSE LET r == ResultsTimestampRow(Head(rows))
         IN  IF r.exc = "TypeError" THEN Raise("TypeError")
             ELSE ResultsTimestampLoop(Tail(rows), invalid_timestamps \o r.invalid,
                                       out_of_order \o r.out_of_order)

\* local_csv_match_results.py 158-220
results_check_timestamps(c) ==
    IF c.data = <<>> THEN NoDataLoaded
    ELSE
    LET loop == ResultsTimestampLoop(c.data, <<>>, <<>>)
    IN  IF loop.raised THEN loop
        ELSE [raised |-> FALSE,
              status |-> IF loop.out_of_order # <<>> THEN WARNING
                         ELSE IF loop.invalid_timestamps # <<>> THEN FAIL
                         ELSE PASS,
              issues |->
                  (IF loop.invalid_timestamps # <<>>
                   THEN <<"Found " \o ToString(Len(loop.invalid_timestamps))
                          \o " invalid timestamps">>
                   ELSE <<>>)
                  \o (IF loop.out_of_order # <<>>
                      THEN <<"Found " \o ToString(Len(loop.out_of_order))
                             \o " records with temporal ordering issues">>
                      ELSE <<>>),
              checks |-> [timestamp_format |->
                             [invalid_count |-> Len(loop.invalid_timestamps),
                              examples |-> FirstN(loop.invalid_timestamps, 5)],
                          temporal_ordering |->
                             [out_of_order_count |-> Len(loop.out_of_order),
                              examples |-> FirstN(loop.out_of_order, 5)]]]

\* local_csv_match_results.py 236-249: match ids whose match_start_time, with its
\* UTC offset dropped (replace(tzinfo=None)), is later than utcnow()
FutureDates(data, utcnow) ==
    SelectSeq(data,
              LAMBDA row :
                  /\ Truthy(get(row, "match_start_time"))
                  /\ ParseTs(get(row, "match_start_time")).valid
                  /\ ParseTs(get(row, "match_start_time")).local > utcnow)

\* local_csv_match_results.py 222-261
results_detect_leakage(c, utcnow) ==
    IF c.data = <<>> THEN NoDataLoaded
    ELSE
    LET future == FutureDates(c.data, utcnow)
        future_dates == [i \in 1..Len(future) |-> get(future[i], "match_id")]
    IN  [raised |-> FALSE,
         status |-> IF future_dates # <<>> THEN FAIL ELSE PASS,
         issues |-> IF future_dates # <<>>
                    THEN <<"CRITICAL: Found " \o ToString(Len(future_dates))
                           \o " future-dated matches">>
                    ELSE <<>>,
         checks |-> [future_dates |->
                        [future_count |-> Len(future_dates),
                         examples |-> FirstN(future_dates, 5)]]]

(***************************************************************************)
(* The five connectors the framework registers.  Their helper checks       *)
(* (_check_xxx) are placeholders for scans of the actual data: what a      *)
(* helper returns is an input, the record h, whose placeholder value is    *)
(* what the checked-in helper returns.  A check is a run of                *)
(*     if <condition>: issues.append(...); status = ...                    *)
(* statements: its status is that of the last statement that fired.        *)
(***************************************************************************)
Step(fires, issue, status) == [fires |-> fires, issue |-> issue, status |-> status]

\* A mutation of CheckResult: the statuses are set and no issue is appended.
CheckResultStatusOnly(steps) ==
    LET fired == SelectSeq(steps, LAMBDA st : st.fires)
    IN  [raised |-> FALSE,
         status |-> IF fired = <<>> THEN PASS ELSE fired[Len(fired)].status,
         issues |-> <<>>]

CheckResult(steps) ==
    LET fired == SelectSeq(steps, LAMBDA st : st.fires)
    IN  [raised |-> FALSE,
         status |-> IF fired = <<>> THEN PASS ELSE fired[Len(fired)].status,
         issues |-> [i \in 1..Len(fired) |-> fired[i].issue]]

Counts(placeholder) == (0..MaxCount) \cup {placeholder}

\* match_results.py 144-202: what the helpers return as checked in
MatchResultsPlaceholder ==
    [unavailable |-> {}, missing_data_count |-> 15, duplicate_count |-> 2,
     is_ordered |-> TRUE, unreasonable_dates |-> FALSE,
     future_count |-> 0, suspicious_updates |-> 0]

\* match_results.py 29-51
match_results_check_availability(c) ==
    CheckResult([i \in 1..Len(c.items) |->
        Step(c.items[i] \in c.h.unavailable, c.items[i] \o " data not available",
             NOT_AVAILABLE)])

\* match_results.py 53-84
match_results_audit_data_quality(c) ==
    CheckResult(<<
        Step(c.h.missing_data_count > 0,
             "Found " \o ToString(c.h.missing_data_count) \o " incomplete records", WARNING),
        Step(c.h.duplicate_count > 0,
             "Found " \o ToString(c.h.duplicate_count) \o " duplicate records", WARNING)>>)

\* match_results.py 86-116
match_results_check_timestamps(c) ==
    CheckResult(<<
        Step(~c.h.is_ordered, "Temporal ordering issues detected", WARNING),
        Step(c.h.unreasonable_dates, "Unreasonable date ranges detected", WARNING)>>)

\* match_results.py 118-142
match_results_detect_leakage(c) ==
    CheckResult(<<
        Step(c.h.future_count > 0,
             "Found " \o ToString(c.h.future_count) \o " future-dated results", FAIL),
        Step(c.h.suspicious_updates > 0,
             "Found " \o ToString(c.h.suspicious_updates)
             \o " suspicious retroactive updates", WARNING)>>)

\* match_stats.py 123-162
MatchStatsPlaceholder ==
    [stats_available |-> TRUE, missing_stats_count |-> 50, inconsistencies |-> 3,
     misaligned_count |-> 2, premature_count |-> 0]

\* match_stats.py 28-47
match_stats_check_availability(c) ==
    CheckResult(<<Step(~c.h.stats_available, "Match stats data source not available",
                       NOT_AVAILABLE)>>)

\* match_stats.py 49-85
match_stats_audit_data_quality(c) ==
    CheckResult(<<
        Step(c.h.missing_stats_count > 0,
             "Found " \o ToString(c.h.missing_stats_count)
             \o " matches with incomplete stats", WARNING),
        Step(c.h.inconsistencies > 0,
             "Found " \o ToString(c.h.inconsistencies) \o " statistical inconsistencies",
             WARNING)>>)

\* match_stats.py 87-103
match_stats_check_timestamps(c) ==
    CheckResult(<<
        Step(c.h.misaligned_count > 0,
             "Found " \o ToString(c.h.misaligned_count)
             \o " stats with misaligned timestamps", WARNING)>>)

\* match_stats.py 105-121
match_stats_detect_leakage(c) ==
    CheckResult(<<
        Step(c.h.premature_count > 0,
             "Found " \o ToString(c.h.premature_count)
             \o " stats appearing before match completion", FAIL)>>)

\* odds.py 138-196
OddsPlaceholder ==
    [unavailable |-> {}, invalid_count |-> 5, missing_snapshots |-> 20,
     late_snapshots |-> 50, is_chronological |-> TRUE,
     post_match_count |-> 0, suspicious_count |-> 5]

\* odds.py 33, 38: self.bookmakers if self.bookmakers else ["generic"]
OrDefault(items, default) == IF items # <<>> THEN items ELSE <<default>>

\* odds.py 29-51
odds_connector_check_availability(c) ==
    LET bookmakers_to_check == OrDefault(c.items, "generic")
    IN  CheckResult([i \in 1..Len(bookmakers_to_check) |->
            Step(bookmakers_to_check[i] \in c.h.unavailable,
                 bookmakers_to_check[i] \o " odds not available", WARNING)])

\* odds.py 53-84
odds_connector_audit_data_quality(c) ==
    CheckResult(<<
        Step(c.h.invalid_count > 0,
             "Found " \o ToString(c.h.invalid_count) \o " invalid odds values", WARNING),
        Step(c.h.missing_snapshots > 0,
             "Found " \o ToString(c.h.missing_snapshots)
             \o " matches without odds snapshots", WARNING)>>)

\* odds.py 86-110
odds_connector_check_timestamps(c) ==
    CheckResult(<<
        Step(c.h.late_snapshots > 0,
             "Found " \o ToString(c.h.late_snapshots)
             \o " snapshots taken too close to match start", WARNING),
        Step(~c.h.is_chronological, "Timestamp chronology issues detected", WARNING)>>)

\* odds.py 112-136
odds_connector_detect_leakage(c) ==
    CheckResult(<<
        Step(c.h.post_match_count > 0,
             "CRITICAL: Found " \o ToString(c.h.post_match_count)
             \o " odds snapshots after match start", FAIL),
        Step(c.h.suspicious_count > 0,
             "Found " \o ToString(c.h.suspicious_count) \o " suspicious odds movements",
             WARNING)>>)

\* venue.py 120-163
VenuePlaceholder ==
    [venue_available |-> TRUE, incomplete_venues |-> 15, inconsistencies |-> 2,
     stale_count |-> 5, suspicious_changes |-> 2]

\* venue.py 28-46
venue_check_availability(c) ==
    CheckResult(<<Step(~c.h.venue_available, "Venue metadata not available",
                       NOT_AVAILABLE)>>)

\* venue.py 48-82
venue_audit_data_quality(c) ==
    CheckResult(<<
        Step(c.h.incomplete_venues > 0,
             "Found " \o ToString(c.h.incomplete_venues)
             \o " venues with incomplete metadata", WARNING),
        Step(c.h.inconsistencies > 0,
             "Found " \o ToString(c.h.inconsistencies) \o " surface type inconsistencies",
             WARNING)>>)

\* venue.py 84-100
venue_check_timestamps(c) ==
    CheckResult(<<
        Step(c.h.stale_count > 0,
             "Found " \o ToString(c.h.stale_count) \o " venues with stale metadata",
             WARNING)>>)

\* venue.py 102-118
venue_detect_leakage(c) ==
    CheckResult(<<
        Step(c.h.suspicious_changes > 0,
             "Found " \o ToString(c.h.suspicious_changes)
             \o " suspicious retroactive metadata changes", WARNING)>>)

\* license.py 121-168
LicensePlaceholder ==
    [unavailable |-> {}, incomplete_licenses |-> 1, expired_count |-> 0,
     expiring_soon_count |-> 1, violations |-> 0, missing_attribution |-> 0]

\* license.py 28-47
license_check_availability(c) ==
    LET sources_to_check == OrDefault(c.items, "default")
    IN  CheckResult([i \in 1..Len(sources_to_check) |->
            Step(sources_to_check[i] \in c.h.unavailable,
                 "No license information for " \o sources_to_check[i], WARNING)])

\* license.py 49-72
license_audit_data_quality(c) ==
    CheckResult(<<
        Step(c.h.incomplete_licenses > 0,
             "Found " \o ToString(c.h.incomplete_licenses) \o " incomplete license records",
             WARNING)>>)

\* license.py 74-93
license_check_timestamps(c) ==
    CheckResult(<<
        Step(c.h.expired_count > 0,
             "CRITICAL: Found " \o ToString(c.h.expired_count) \o " expired licenses", FAIL),
        Step(~(c.h.expired_count > 0) /\ c.h.expiring_soon_count > 0,
             "Warning: " \o ToString(c.h.expiring_soon_count)
             \o " licenses expiring within 30 days", WARNING)>>)

\* license.py 95-119
license_detect_leakage(c) ==
    CheckResult(<<
        Step(c.h.violations > 0,
             "Found " \o ToString(c.h.violations) \o " potential terms violations", WARNING),
        Step(c.h.missing_attribution > 0,
             "Found " \o ToString(c.h.missing_attribution)
             \o " sources missing required attribution", WARNING)>>)

(***************************************************************************)
(* Method dispatch on the connector's class.                               *)
(***************************************************************************)
\* a variant in which the venue connector reports the name of the match results one
get_source_name_clash(c) ==
    CASE c.cls = "LocalCSVOddsConnector" -> OddsSource
      [] c.cls = "LocalCSVMatchResultsConnector" -> ResultsSource
      [] c.cls = "MatchResultsConnector" -> "match_results"
      [] c.cls = "MatchStatsConnector" -> "match_stats"
      [] c.cls = "OddsConnector" -> "pre_match_odds"
      [] c.cls = "VenueConnector" -> "match_results"
      [] c.cls = "LicenseConnector" -> "license_status"
      [] c.cls = "DataConnector" -> c.source

get_source_name(c) ==
    CASE c.cls = "LocalCSVOddsConnector" -> OddsSource
      [] c.cls = "LocalCSVMatchResultsConnector" -> ResultsSource
      [] c.cls = "MatchResultsConnector" -> "match_results"
      [] c.cls = "MatchStatsConnector" -> "match_stats"
      [] c.cls = "OddsConnector" -> "pre_match_odds"
      [] c.cls = "VenueConnector" -> "venue_metadata"
      [] c.cls = "LicenseConnector" -> "license_status"
      [] c.cls = "DataConnector" -> c.source

check_availability(c, file) ==
    CASE c.cls = "LocalCSVOddsConnector" -> odds_check_availability(c, file)
      [] c.cls = "LocalCSVMatchResultsConnector" -> results_check_availability(c, file)
      [] c.cls = "MatchResultsConnector" -> match_results_check_availability(c)
      [] c.cls = "MatchStatsConnector" -> match_stats_check_availability(c)
      [] c.cls = "OddsConnector" -> odds_connector_check_availability(c)
      [] c.cls = "VenueConnector" -> venue_check_availability(c)
      [] c.cls = "LicenseConnector" -> license_check_availability(c)
      [] c.cls = "DataConnector" -> AbstractResult(c.statuses[1])

audit_data_quality(c) ==
    CASE c.cls = "LocalCSVOddsConnector" -> odds_audit_data_quality(c)
      [] c.cls = "LocalCSVMatchResultsConnector" -> results_audit_data_quality(c)
      [] c.cls = "MatchResultsConnector" -> match_results_audit_data_quality(c)
      [] c.cls = "MatchStatsConnector" -> match_stats_audit_data_quality(c)
      [] c.cls = "OddsConnector" -> odds_connector_audit_data_quality(c)
      [] c.cls = "VenueConnector" -> venue_audit_data_quality(c)
      [] c.cls = "LicenseConnector" -> license_audit_data_quality(c)
      [] c.cls = "DataConnector" -> AbstractResult(c.statuses[2])

check_timestamps(c) ==
    CASE c.cls = "LocalCSVOddsConnector" -> odds_check_timestamps(c)
      [] c.cls = "LocalCSVMatchResultsConnector" -> results_check_timestamps(c)
      [] c.cls = "MatchResultsConnector" -> match_results_check_timestamps(c)
      [] c.cls = "MatchStatsConnector" -> match_stats_check_timestamps(c)
      [] c.cls = "OddsConnector" -> odds_connector_check_timestamps(c)
      [] c.cls = "VenueConnector" -> venue_check_timestamps(c)
      [] c.cls = "LicenseConnector" -> license_check_timestamps(c)
      [] c.cls = "DataConnector" -> AbstractResult(c.statuses[3])

detect_leakage(c, utcnow) ==
    CASE c.cls = "LocalCSVOddsConnector" -> odds_detect_leakage(c)
      [] c.cls = "LocalCSVMatchResultsConnector" -> results_detect_leakage(c, utcnow)
      [] c.cls = "MatchResultsConnector" -> match_results_detect_leakage(c)
      [] c.cls = "MatchStatsConnector" -> match_stats_detect_leakage(c)
      [] c.cls = "OddsConnector" -> odds_connector_detect_leakage(c)
      [] c.cls = "VenueConnector" -> venue_detect_leakage(c)
      [] c.cls = "LicenseConnector" -> license_detect_leakage(c)
      [] c.cls = "DataConnector" -> AbstractResult(c.statuses[4])

\* base.py 93-131
run_full_audit(c, file, utcnow) ==
    BuildReport(get_source_name(c), check_availability(c, file), audit_data_quality(c),
                check_timestamps(c), detect_leakage(c, utcnow))

(***************************************************************************)
(* audit.py: AuditFramework.                                               *)
(***************************************************************************)
\* audit.py 122-128, 133-136: f"{source}: {issue}" for every issue of every check
SourceCriticalIssues(source, result) ==
    Concat([k \in 1..Len(CheckTypes) |->
        [i \in 1..Len(result[CheckTypes[k]].issues) |->
            source \o ": " \o result[CheckTypes[k]].issues[i]]])

\* audit.py 131-136: f"{source}.{check_type}: {issue}"
SourceAllIssues(source, result) ==
    Concat([k \in 1..Len(CheckTypes) |->
        [i \in 1..Len(result[CheckTypes[k]].issues) |->
            source \o "." \o CheckTypes[k] \o ": " \o result[CheckTypes[k]].issues[i]]])

\* A mutation of Tally: a source that is not available is not counted.
TallyNotAvailableDropped(audit_results, status) ==
    IF status = NOT_AVAILABLE THEN 0
    ELSE Cardinality({i \in 1..Len(audit_results) :
                         audit_results[i].value.overall_status = status})

\* audit.py 113-128: the counter of one overall status
Tally(audit_results, status) ==
    Cardinality({i \in 1..Len(audit_results) :
                    audit_results[i].value.overall_status = status})

\* A mutation of CriticalIssues: only the leakage check's issues are collected.
CriticalIssuesLeakageOnly(audit_results) ==
    Concat([n \in 1..Len(audit_results) |->
        IF audit_results[n].value.overall_status = FAIL
        THEN [i \in 1..Len(audit_results[n].value.leakage_check.issues) |->
                 audit_results[n].key \o ": "
                 \o audit_results[n].value.leakage_check.issues[i]]
        ELSE <<>>])

\* a variant that also collects the issues of sources with warnings
CriticalIssuesOfWarnings(audit_results) ==
    Concat([n \in 1..Len(audit_results) |->
        IF audit_results[n].value.overall_status \in {FAIL, WARNING}
        THEN SourceCriticalIssues(audit_results[n].key, audit_results[n].value)
        ELSE <<>>])

\* audit.py 113-125
CriticalIssues(audit_results) ==
    Concat([n \in 1..Len(audit_results) |->
        IF audit_results[n].value.overall_status = FAIL
        THEN SourceCriticalIssues(audit_results[n].key, audit_results[n].value)
        ELSE <<>>])

\* A mutation of AllIssues: the issues of passing and unavailable sources are left out.
AllIssuesOfProblemSources(audit_results) ==
    Concat([n \in 1..Len(audit_results) |->
        IF audit_results[n].value.overall_status \in {FAIL, WARNING}
        THEN SourceAllIssues(audit_results[n].key, audit_results[n].value)
        ELSE <<>>])

\* audit.py 113, 131-136
AllIssues(audit_results) ==
    Concat([n \in 1..Len(audit_results) |->
        SourceAllIssues(audit_results[n].key, audit_results[n].value)])

\* audit.py 99-138
_generate_summary(audit_results) ==
    [total_connectors |-> Len(audit_results),
     passed |-> Tally(audit_results, PASS),
     failed |-> Tally(audit_results, FAIL),
     warnings |-> Tally(audit_results, WARNING),
     not_available |-> Tally(audit_results, NOT_AVAILABLE),
     critical_issues |-> CriticalIssues(audit_results),
     all_issues |-> AllIssues(audit_results)]

\* The dict built by d[key] = value over items in order: a key sits where it was
\* first set and holds the value it was last set to.
DictOf(items) ==
    LET firsts == {i \in 1..Len(items) : \A j \in 1..(i - 1) : items[j].key # items[i].key}
        last(key) == CHOOSE i \in 1..Len(items) :
                        /\ items[i].key = key
                        /\ \A j \in (i + 1)..Len(items) : items[j].key # key
        nth(k) == CHOOSE i \in firsts : Cardinality({j \in firsts : j < i}) = k - 1
    IN  [k \in 1..Cardinality(firsts) |->
            [key |-> items[nth(k)].key, value |-> items[last(items[nth(k)].key)].value]]

\* A mutation of Skipped: the selection is ignored.
SkippedNever(connectors, source_name) == FALSE

\* audit.py 85-86: if connectors and source_name not in connectors: continue
\* (connectors is None or a list; None and the empty list are falsy)
Skipped(connectors, source_name) ==
    connectors.given /\ connectors.names # <<>> /\ ~Contains(connectors.names, source_name)

\* audit.py 81-86: the connectors the loop does not skip, in the order of
\* self.connectors.
Audited(framework, connectors) ==
    SelectSeq(framework.connectors, LAMBDA c : ~Skipped(connectors, get_source_name(c)))

\* audit.py 82-89: source_name and run_full_audit() of each audited connector.
Reports(audited, file, utcnow) ==
    [i \in 1..Len(audited) |->
        [key |-> get_source_name(audited[i]),
         value |-> run_full_audit(audited[i], file, utcnow)]]

\* audit.py 88-97: a run_full_audit that raises ends the run with its exception;
\* otherwise the return value is built from the reports.
AuditOutcome(reports) ==
    IF \E i \in 1..Len(reports) : reports[i].value.raised
    THEN Raise((CHOOSE i \in 1..Len(reports) :
                   /\ reports[i].value.raised
                   /\ \A j \in 1..(i - 1) : ~reports[j].value.raised).exc)
    ELSE [raised |-> FALSE,
          connectors_audited |-> [i \in 1..Len(reports) |-> reports[i].key],
          results |-> DictOf(reports),
          summary |-> _generate_summary(DictOf(reports))]

\* audit.py 59-97
run_audit(framework, connectors, file, utcnow) ==
    AuditOutcome(Reports(Audited(framework, connectors), file, utcnow))

\* match_results.py 21-24, match_stats.py 21-23, odds.py 21-24, venue.py 21-23,
\* license.py 21-23: the constructors; h is what the connector's helper checks return
\* dict.get(key, default); a configuration section that is absent or empty gives
\* the default too ("config.get(...) if config else ...")
GetOr(config, key, default) == IF key \in DOMAIN config THEN config[key] ELSE default

\* {}: the mapping without keys
EmptyDict == [k \in {} |-> <<>>]

MatchResultsConnector(config, h) ==
    [cls |-> "MatchResultsConnector",
     items |-> GetOr(config, "circuits", <<"ATP", "Challenger", "ITF">>), h |-> h]

MatchStatsConnector(h) == [cls |-> "MatchStatsConnector", items |-> <<>>, h |-> h]

OddsConnector(config, h) ==
    [cls |-> "OddsConnector", items |-> GetOr(config, "bookmakers", <<>>), h |-> h]

VenueConnector(h) == [cls |-> "VenueConnector", items |-> <<>>, h |-> h]

LicenseConnector(config, h) ==
    [cls |-> "LicenseConnector", items |-> GetOr(config, "sources", <<>>), h |-> h]

\* audit.py 26-57: __init__ and _initialize_connectors
AuditFramework(config, h) ==
    [cls |-> "AuditFramework",
     config |-> config,
     connectors |-> <<MatchResultsConnector(GetOr(config, "match_results", EmptyDict), h[1]),
                      MatchStatsConnector(h[2]),
                      OddsConnector(GetOr(config, "odds", EmptyDict), h[3]),
                      VenueConnector(h[4]),
                      LicenseConnector(GetOr(config, "license", EmptyDict), h[5])>>]

\* utils/config.py 35-64
get_default_config ==
    [match_results |-> [circuits |-> <<"ATP", "Challenger", "ITF">>],
     odds |-> [bookmakers |-> <<>>],
     license |-> [sources |-> <<>>]]

(***************************************************************************)
(* The calls.  Each records what was called and what came back.            *)
(***************************************************************************)
IsConnector == conn.cls # "AuditFramework"

CheckAvailability ==
    /\ IsConnector
    /\ call' = [op |-> "check_availability", arg |-> NoSelection]
    /\ ret' = check_availability(conn, fs)
    /\ UNCHANGED <<conn, fs, now>>

AuditDataQuality ==
    /\ IsConnector
    /\ call' = [op |-> "audit_data_quality", arg |-> NoSelection]
    /\ ret' = audit_data_quality(conn)
    /\ UNCHANGED <<conn, fs, now>>

CheckTimestamps ==
    /\ IsConnector
    /\ call' = [op |-> "check_timestamps", arg |-> NoSelection]
    /\ ret' = check_timestamps(conn)
    /\ UNCHANGED <<conn, fs, now>>

DetectLeakage ==
    /\ IsConnector
    /\ call' = [op |-> "detect_leakage", arg |-> NoSelection]
    /\ ret' = detect_leakage(conn, now)
    /\ UNCHANGED <<conn, fs, now>>

RunFullAudit ==
    /\ IsConnector
    /\ call' = [op |-> "run_full_audit", arg |-> NoSelection]
    /\ ret' = run_full_audit(conn, fs, now)
    /\ UNCHANGED <<conn, fs, now>>

\* AuditFramework._generate_summary on the report run_full_audit just returned
GenerateSummary ==
    /\ call.op = "run_full_audit"
    /\ ~ret.raised
    /\ call' = [op |-> "_generate_summary", arg |-> NoSelection]
    /\ LET audit_results == <<[key |-> ret.source, value |-> ret]>>
       IN  ret' = [raised |-> FALSE, results |-> audit_results,
                   summary |-> _generate_summary(audit_results)]
    /\ UNCHANGED <<conn, fs, now>>

\* Names a selection may hold: the registered ones and one that is not registered.
SelectableNames ==
    {"match_results", "match_stats", "pre_match_odds", "venue_metadata",
     "license_status", "local_csv_match_results", "local_csv_odds"}

Selections == {NoSelection} \cup {Selection(n) : n \in SeqsUpTo(SelectableNames, MaxSel)}

\* a variant in which a run takes the connectors it audited out of the framework
AfterRunAuditDrained(framework, connectors) ==
    [framework EXCEPT
        !.connectors = SelectSeq(@, LAMBDA c : Skipped(connectors, get_source_name(c)))]

\* audit.py 59-97: the framework after run_audit.  The method assigns to locals
\* only; neither self.config nor self.connectors nor a connector's fields change.
AfterRunAudit(framework, connectors) == framework

\* cli.py 105-125: the audit command builds the framework and calls run_audit once
RunAudit ==
    /\ conn.cls = "AuditFramework"
    /\ call.op = "none"
    /\ \E connectors \in Selections :
          /\ call' = [op |-> "run_audit", arg |-> connectors]
          /\ ret' = run_audit(conn, connectors, fs, now)
          /\ conn' = AfterRunAudit(conn, connectors)
    /\ UNCHANGED <<fs, now>>

\* The runs made before the current one, oldest first, each with its selection and
\* what it returned.
EarlierRuns == IF call.op = "run_audit_again" THEN call.earlier ELSE <<>>

MaxRuns == 3

\* The selection of the first run made on the framework.
FirstSelection == IF EarlierRuns = <<>> THEN call.arg ELSE call.earlier[1].arg

\* audit.py 59-97: a further run_audit on a framework that has already run, with
\* the selection of the first run or with none
RunAuditAgain ==
    /\ conn.cls = "AuditFramework"
    /\ call.op \in {"run_audit", "run_audit_again"}
    /\ Len(EarlierRuns) + 1 < MaxRuns
    /\ \E connectors \in {FirstSelection, NoSelection} :
          /\ call' = [op |-> "run_audit_again", arg |-> connectors,
                      earlier |-> Append(EarlierRuns, [arg |-> call.arg, ret |-> ret])]
          /\ ret' = run_audit(conn, connectors, fs, now)
          /\ conn' = AfterRunAudit(conn, connectors)
    /\ UNCHANGED <<fs, now>>

(***************************************************************************)
(* Inputs.                                                                 *)
(***************************************************************************)
\* local_csv_match_results.py 236: a reading of datetime.utcnow(), 2024-01-01T12:00:00
\* in seconds since midnight
Noon == 43200

NoFile == [exists |-> FALSE, rows |-> <<>>]

OddsStartTimes == {"2024-01-01T12:00:00Z", "2024-01-01T12:00:00", Unparsable}
OddsAvailableAt ==
    {"2024-01-01T10:00:00Z", "2024-01-01T11:59:59Z", "2024-01-01T12:00:00Z",
     "2024-01-01T13:00:00Z", Unparsable}
OddsSnapshots ==
    {"", "2024-01-01T11:59:59Z", "2024-01-01T12:00:00Z", "2024-01-01T11:59:59"}

OddsRow(sn, av, st, p1, p2, bk) ==
    [match_id |-> "M1", snapshot_timestamp |-> sn, player1_odds |-> p1,
     player2_odds |-> p2, bookmaker |-> bk, available_at |-> av,
     match_start_time |-> st]

\* Records that differ in their timestamps: every snapshot and available_at against
\* a start time with 'Z', some against a start time without offset or unparsable,
\* one with an unparsable snapshot.
OddsTimestampRows ==
    {OddsRow(sn, av, "2024-01-01T12:00:00Z", "1.50", "2.50", "bk") :
        sn \in OddsSnapshots, av \in OddsAvailableAt}
    \cup {OddsRow(sn, av, "2024-01-01T12:00:00", "1.50", "2.50", "bk") :
            sn \in {"", "2024-01-01T11:59:59Z"},
            av \in {"2024-01-01T11:59:59Z", "2024-01-01T13:00:00Z"}}
    \cup {OddsRow("2024-01-01T12:00:00Z", "2024-01-01T13:00:00Z", Unparsable,
                  "1.50", "2.50", "bk"),
          OddsRow(Unparsable, "2024-01-01T12:00:00Z", "2024-01-01T12:00:00Z",
                  "1.50", "2.50", "bk")}

\* Records that differ in their odds and in an empty required field.
OddsQualityRows ==
    {OddsRow("2024-01-01T11:59:59Z", "2024-01-01T11:59:59Z", "2024-01-01T12:00:00Z",
             p1, "2.50", bk) : p1 \in {"1.50", "0.50", "abc"}, bk \in {"bk", ""}}
    \cup {OddsRow("2024-01-01T11:59:59Z", "2024-01-01T11:59:59Z", "2024-01-01T12:00:00Z",
                  "0.50", "abc", "bk")}

\* A record of a file whose header has no bookmaker column.
OddsRowNoBookmaker ==
    [match_id |-> "M1", snapshot_timestamp |-> "2024-01-01T11:59:59Z",
     player1_odds |-> "0.50", player2_odds |-> "2.50",
     available_at |-> "2024-01-01T11:59:59Z", match_start_time |-> "2024-01-01T12:00:00Z"]

OddsRows == OddsTimestampRows \cup OddsQualityRows \cup {OddsRowNoBookmaker}

ResultsStartTimes ==
    {"2024-01-01T12:00:00Z", "2024-01-01T13:00:00+01:00", "2024-01-01T12:00:00", Unparsable}
ResultsAvailableAt ==
    {"2024-01-01T11:59:59Z", "2024-01-01T12:00:00Z", "2024-01-01T13:00:00Z", Unparsable}

ResultsRow(id, circuit, score, st, av) ==
    [match_id |-> id, date |-> "2024-01-01", tournament |-> "Open", circuit |-> circuit,
     player1 |-> "A", player2 |-> "B", score |-> score, winner |-> "A",
     match_start_time |-> st, available_at |-> av]

\* Records that differ in their timestamps.
ResultsTimestampRows ==
    {ResultsRow("M1", "ATP", "6-4 6-4", st, av) :
        st \in ResultsStartTimes, av \in ResultsAvailableAt}

\* Records that differ in match id, circuit and an empty required field.
ResultsQualityRows ==
    {ResultsRow(id, circuit, "6-4 6-4", "2024-01-01T12:00:00Z", "2024-01-01T13:00:00Z") :
        id \in {"M1", "M2"}, circuit \in {"ATP", "WTA"}}
    \cup {ResultsRow("M2", "ATP", "", "2024-01-01T12:00:00Z", "2024-01-01T13:00:00Z"),
          ResultsRow("M2", "", "6-4 6-4", "2024-01-01T12:00:00Z", "2024-01-01T13:00:00Z")}

\* A record of a file whose header has no winner column.
ResultsRowNoWinner ==
    [match_id |-> "M2", date |-> "2024-01-01", tournament |-> "Open", circuit |-> "WTA",
     player1 |-> "A", player2 |-> "B", score |-> "6-4 6-4",
     match_start_time |-> "2024-01-01T12:00:00Z", available_at |-> "2024-01-01T13:00:00Z"]

ResultsRows == ResultsTimestampRows \cup ResultsQualityRows \cup {ResultsRowNoWinner}

RowsOf(cls) == IF cls = "LocalCSVOddsConnector" THEN OddsRows ELSE ResultsRows

\* csv.DictReader gives all the rows of a file the same keys.
Files(cls) ==
    {NoFile} \cup {[exists |-> TRUE, rows |-> d] :
                      d \in {r \in SeqsUpTo(RowsOf(cls), MaxRows) : SameHeader(r)}}

Nows == {Noon, Noon + 3600}

(***************************************************************************)
(* SpecCsv: a local CSV connector, constructed over a CSV file, and the    *)
(* calls made on it.                                                       *)
(***************************************************************************)
InitCsv ==
    \E cls \in {"LocalCSVOddsConnector", "LocalCSVMatchResultsConnector"} :
      \E csv_path \in {"", "data.csv"} :
        \E file \in Files(cls) :
          \E utcnow \in Nows :
            /\ csv_path = "" => file.rows = <<>>
            /\ cls = "LocalCSVOddsConnector" => utcnow = Noon
            /\ conn = NewCSVConnector(cls, csv_path, file)
            /\ fs = file
            /\ now = utcnow
            /\ call = NoCall
            /\ ret = None

NextCsv ==
    \/ CheckAvailability
    \/ AuditDataQuality
    \/ CheckTimestamps
    \/ DetectLeakage
    \/ RunFullAudit
    \/ GenerateSummary

SpecCsv == InitCsv /\ [][NextCsv]_vars

(***************************************************************************)
(* SpecRollup: a connector whose four checks return any four statuses.     *)
(***************************************************************************)
InitRollup ==
    /\ conn \in AbstractConnectors
    /\ fs = NoFile
    /\ now = Noon
    /\ call = NoCall
    /\ ret = None

NextRollup == RunFullAudit

SpecRollup == InitRollup /\ [][NextRollup]_vars

(***************************************************************************)
(* SpecStub: one of the five registered connectors, with any values for    *)
(* what its helper checks return, and the calls made on it.                *)
(***************************************************************************)
MatchResultsHelpers ==
    [unavailable : SUBSET {"ATP", "ITF"},
     missing_data_count : Counts(MatchResultsPlaceholder.missing_data_count),
     duplicate_count : Counts(MatchResultsPlaceholder.duplicate_count),
     is_ordered : BOOLEAN,
     unreasonable_dates : BOOLEAN,
     future_count : Counts(MatchResultsPlaceholder.future_count),
     suspicious_updates : Counts(MatchResultsPlaceholder.suspicious_updates)]

MatchStatsHelpers ==
    [stats_available : BOOLEAN,
     missing_stats_count : Counts(MatchStatsPlaceholder.missing_stats_count),
     inconsistencies : Counts(MatchStatsPlaceholder.inconsistencies),
     misaligned_count : Counts(MatchStatsPlaceholder.misaligned_count),
     premature_count : Counts(MatchStatsPlaceholder.premature_count)]

OddsHelpers ==
    [unavailable : SUBSET {"generic"},
     invalid_count : Counts(OddsPlaceholder.invalid_count),
     missing_snapshots : Counts(OddsPlaceholder.missing_snapshots),
     late_snapshots : Counts(OddsPlaceholder.late_snapshots),
     is_chronological : BOOLEAN,
     post_match_count : Counts(OddsPlaceholder.post_match_count),
     suspicious_count : Counts(OddsPlaceholder.suspicious_count)]

VenueHelpers ==
    [venue_available : BOOLEAN,
     incomplete_venues : Counts(VenuePlaceholder.incomplete_venues),
     inconsistencies : Counts(VenuePlaceholder.inconsistencies),
     stale_count : Counts(VenuePlaceholder.stale_count),
     suspicious_changes : Counts(VenuePlaceholder.suspicious_changes)]

LicenseHelpers ==
    [unavailable : SUBSET {"default"},
     incomplete_licenses : Counts(LicensePlaceholder.incomplete_licenses),
     expired_count : Counts(LicensePlaceholder.expired_count),
     expiring_soon_count : Counts(LicensePlaceholder.expiring_soon_count),
     violations : Counts(LicensePlaceholder.violations),
     missing_attribution : Counts(LicensePlaceholder.missing_attribution)]

StubConnectors ==
    {MatchResultsConnector(get_default_config.match_results, h) : h \in MatchResultsHelpers}
    \cup {MatchStatsConnector(h) : h \in MatchStatsHelpers}
    \cup {OddsConnector(get_default_config.odds, h) : h \in OddsHelpers}
    \cup {VenueConnector(h) : h \in VenueHelpers}
    \cup {LicenseConnector(get_default_config.license, h) : h \in LicenseHelpers}

InitStub ==
    /\ conn \in StubConnectors
    /\ fs = NoFile
    /\ now = Noon
    /\ call = NoCall
    /\ ret = None

NextStub ==
    \/ CheckAvailability
    \/ AuditDataQuality
    \/ CheckTimestamps
    \/ DetectLeakage
    \/ RunFullAudit

SpecStub == InitStub /\ [][NextStub]_vars

(***************************************************************************)
(* Spec: the AuditFramework over the default configuration, and run_audit. *)
(* Each registered connector's helpers return their placeholder values,    *)
(* or report a clean source, or one confirmed defect.                      *)
(***************************************************************************)
MatchResultsClean ==
    [MatchResultsPlaceholder EXCEPT !.missing_data_count = 0, !.duplicate_count = 0]

MatchStatsClean ==
    [MatchStatsPlaceholder EXCEPT !.missing_stats_count = 0, !.inconsistencies = 0,
                                  !.misaligned_count = 0]

OddsClean ==
    [OddsPlaceholder EXCEPT !.invalid_count = 0, !.missing_snapshots = 0,
                            !.late_snapshots = 0, !.suspicious_count = 0]

VenueClean ==
    [VenuePlaceholder EXCEPT !.incomplete_venues = 0, !.inconsistencies = 0,
                             !.stale_count = 0, !.suspicious_changes = 0]

LicenseClean ==
    [LicensePlaceholder EXCEPT !.incomplete_licenses = 0, !.expiring_soon_count = 0]

FrameworkHelpers ==
    {<<h1, h2, h3, h4, h5>> :
        h1 \in {MatchResultsPlaceholder, MatchResultsClean,
                [MatchResultsPlaceholder EXCEPT !.future_count = 1],
                [MatchResultsClean EXCEPT !.unavailable = {"ITF"}]},
        h2 \in {MatchStatsPlaceholder, MatchStatsClean,
                [MatchStatsPlaceholder EXCEPT !.premature_count = 1],
                [MatchStatsClean EXCEPT !.stats_available = FALSE]},
        h3 \in {OddsPlaceholder, OddsClean, [OddsClean EXCEPT !.post_match_count = 1]},
        h4 \in {VenuePlaceholder, VenueClean, [VenueClean EXCEPT !.venue_available = FALSE]},
        h5 \in {LicensePlaceholder, LicenseClean,
                [LicensePlaceholder EXCEPT !.expired_count = 1]}}

\* What the helper checks return: as checked in, nothing to report, sources that are
\* not available, or one confirmed defect.
CliHelpers ==
    {<<MatchResultsPlaceholder, MatchStatsPlaceholder, OddsPlaceholder, VenuePlaceholder,
       LicensePlaceholder>>,
     <<MatchResultsClean, MatchStatsClean, OddsClean, VenueClean, LicenseClean>>,
     <<MatchResultsClean, [MatchStatsClean EXCEPT !.stats_available = FALSE], OddsClean,
       [VenueClean EXCEPT !.venue_available = FALSE], LicensePlaceholder>>,
     <<MatchResultsClean, MatchStatsClean, [OddsClean EXCEPT !.post_match_count = 1],
       VenueClean, LicenseClean>>,
     <<MatchResultsPlaceholder, [MatchStatsPlaceholder EXCEPT !.premature_count = 1],
       OddsPlaceholder, VenuePlaceholder, LicensePlaceholder>>,
     <<MatchResultsPlaceholder, MatchStatsPlaceholder, OddsPlaceholder, VenuePlaceholder,
       [LicensePlaceholder EXCEPT !.expired_count = 1]>>}

\* examples/end_to_end.py 21-28, tests/test_local_csv_connectors.py 82-89: a
\* configuration with sections for the two local CSV connectors only
LocalCsvConfig ==
    [local_csv_match_results |-> [csv_path |-> "data.csv"],
     local_csv_odds |-> [csv_path |-> "data.csv"]]

\* a configuration naming one circuit and one bookmaker, without a license section
CustomConfig ==
    [match_results |-> [circuits |-> <<"ATP">>],
     odds |-> [bookmakers |-> <<"generic">>]]

Init ==
    /\ conn \in {AuditFramework(get_default_config, h) : h \in FrameworkHelpers}
                \cup {AuditFramework(config, h) :
                         config \in {LocalCsvConfig, CustomConfig}, h \in CliHelpers}
    /\ fs = NoFile
    /\ now = Noon
    /\ call = NoCall
    /\ ret = None

Next == RunAudit

Spec == Init /\ [][Next]_vars

(***************************************************************************)
(* SpecRuns: a framework on which run_audit is called up to MaxRuns times. *)
(***************************************************************************)
InitRuns ==
    /\ conn \in {AuditFramework(config, h) :
                    config \in {get_default_config, LocalCsvConfig, CustomConfig},
                    h \in CliHelpers}
    /\ fs = NoFile
    /\ now = Noon
    /\ call = NoCall
    /\ ret = None

NextRuns == RunAudit \/ RunAuditAgain

SpecRuns == InitRuns /\ [][NextRuns]_vars

(***************************************************************************)
(* SpecCli: the audit command of the CLI.  Its environment is what the     *)
(* command finds when it runs: the configuration file behind --config,     *)
(* whether the report files can be written, and what the helper checks of  *)
(* the registered connectors return.                                       *)
(***************************************************************************)
\* sys.exit(code) at a stage of the command; audit_results is what run_audit had
\* returned by then
Exit(code, stage, audit_results) ==
    [raised |-> FALSE, exit_code |-> code, stage |-> stage, audit_results |-> audit_results]

\* utils/config.py 10-32: yaml.safe_load of the file raises, or gives the mapping
load_config(config_file) ==
    IF ~config_file.exists THEN Raise("FileNotFoundError")
    ELSE IF ~config_file.readable THEN Raise("YAMLError")
    ELSE [raised |-> FALSE, config |-> config_file.config]

\* cli.py 91-103: the configuration the command runs with
audit_config(config, config_file) ==
    IF config THEN load_config(config_file).config ELSE get_default_config

\* cli.py 122: list(connectors) if connectors else None
CliSelection(connectors) ==
    IF connectors # <<>> THEN Selection(connectors) ELSE NoSelection

\* A mutation of ExitCode: warnings fail the command as well.
ExitCodeWarningsFail(summary) ==
    IF summary.failed > 0 THEN 1
    ELSE IF summary.warnings > 0 THEN 1
    ELSE 0

\* cli.py 166-172
ExitCode(summary) ==
    IF summary.failed > 0 THEN 1
    ELSE IF summary.warnings > 0 THEN 0
    ELSE 0

\* cli.py 121-172: from the return of run_audit to the exit
AfterRun(audit_results, reports_writable) ==
    IF audit_results.raised THEN Exit(1, "run_audit", None)
    ELSE IF ~reports_writable THEN Exit(1, "generate_reports", audit_results)
    ELSE Exit(ExitCode(audit_results.summary), "done", audit_results)

\* a variant that goes on with the default configuration when loading fails
auditDefaultsOnError(env, config, connectors, utcnow) ==
    AfterRun(run_audit(AuditFramework(IF config /\ ~load_config(env.config_file).raised
                                      THEN load_config(env.config_file).config
                                      ELSE get_default_config, env.h),
                       CliSelection(connectors), NoFile, utcnow),
             env.reports_writable)

\* cli.py 69-172
audit(env, config, connectors, utcnow) ==
    IF config /\ load_config(env.config_file).raised THEN Exit(1, "load_config", None)
    ELSE AfterRun(run_audit(AuditFramework(audit_config(config, env.config_file), env.h),
                            CliSelection(connectors), NoFile, utcnow),
                  env.reports_writable)

\* cli.py 46-62: --connector takes the five registered names, any number of times
CliConnectorChoices ==
    {"match_results", "match_stats", "pre_match_odds", "venue_metadata", "license_status"}

Audit ==
    /\ conn.cls = "cli"
    /\ call.op = "none"
    /\ \E config \in BOOLEAN :
         \E connectors \in SeqsUpTo(CliConnectorChoices, MaxSel) :
            /\ call' = [op |-> "audit", arg |-> CliSelection(connectors), config |-> config]
            /\ ret' = audit(conn, config, connectors, now)
    /\ UNCHANGED <<conn, fs, now>>

\* A configuration file that is missing, one that does not parse, and two that do.
ConfigFiles ==
    {[exists |-> FALSE, readable |-> FALSE, config |-> get_default_config],
     [exists |-> TRUE, readable |-> FALSE, config |-> get_default_config],
     [exists |-> TRUE, readable |-> TRUE, config |-> get_default_config],
     [exists |-> TRUE, readable |-> TRUE,
      config |-> [match_results |-> [circuits |-> <<"ATP">>],
                  odds |-> [bookmakers |-> <<"generic">>],
                  license |-> [sources |-> <<"default">>]]]}

InitCli ==
    /\ conn \in [cls : {"cli"}, config_file : ConfigFiles, reports_writable : BOOLEAN,
                 h : CliHelpers]
    /\ fs = NoFile
    /\ now = Noon
    /\ call = NoCall
    /\ ret = None

NextCli == Audit

SpecCli == InitCli /\ [][NextCli]_vars

(***************************************************************************)
(* SpecChecks: any connector, local CSV or registered, and its four checks.*)
(***************************************************************************)
InitChecks == InitCsv \/ InitStub

NextChecks ==
    \/ CheckAvailability
    \/ AuditDataQuality
    \/ CheckTimestamps
    \/ DetectLeakage

SpecChecks == InitChecks /\ [][NextChecks]_vars

(***************************************************************************)
(* SpecFile: a local CSV connector whose CSV file changes after the        *)
(* connector was constructed.  The records are loaded by the constructor;  *)
(* check_availability looks at the file when it is called.                 *)
(***************************************************************************)
\* Well-formed records: one odds record, two match results.
PlainRows(cls) ==
    IF cls = "LocalCSVOddsConnector"
    THEN {OddsRow("2024-01-01T11:59:59Z", av, "2024-01-01T12:00:00Z", "1.50", "2.50", "bk") :
             av \in {"2024-01-01T11:59:59Z", "2024-01-01T13:00:00Z"}}
    ELSE {ResultsRow(id, "ATP", "6-4 6-4", "2024-01-01T12:00:00Z", "2024-01-01T11:59:59Z") :
             id \in {"M1", "M2"}}

PlainFiles(cls) ==
    {NoFile} \cup {[exists |-> TRUE, rows |-> d] : d \in SeqsUpTo(PlainRows(cls), MaxRows)}

\* The file behind csv_path is removed, created or replaced by another program.
ChangeFile ==
    /\ conn.cls \in {"LocalCSVOddsConnector", "LocalCSVMatchResultsConnector"}
    /\ Truthy(conn.csv_path)
    /\ call.op = "none"
    /\ \E file \in PlainFiles(conn.cls) :
          /\ Len(file.rows) <= 1
          /\ file # fs
          /\ fs' = file
    /\ UNCHANGED <<conn, now, call, ret>>

InitFile ==
    \E cls \in {"LocalCSVOddsConnector", "LocalCSVMatchResultsConnector"} :
      \E csv_path \in {"", "data.csv"} :
        \E file \in PlainFiles(cls) :
            /\ csv_path = "" => file = NoFile
            /\ conn = NewCSVConnector(cls, csv_path, file)
            /\ fs = file
            /\ now = Noon + 3600
            /\ call = NoCall
            /\ ret = None

NextFile ==
    \/ ChangeFile
    \/ CheckAvailability
    \/ RunFullAudit

SpecFile == InitFile /\ [][NextFile]_vars

(***************************************************************************)
(* SpecMerge: utils/config.py merge_configs.  Python dictionaries are      *)
(* objects: heap[id] is the dictionary with that identity, a mapping from  *)
(* keys to items, an item being a scalar or a reference to a dictionary.   *)
(***************************************************************************)
Scalar(s) == [kind |-> "scalar", ref |-> 0, val |-> s]

Ref(id) == [kind |-> "dict", ref |-> id, val |-> ""]

\* d[k] = v
SetItem(d, k, v) == [x \in DOMAIN d \cup {k} |-> IF x = k THEN v ELSE d[x]]

\* The keys a configuration may hold, in the order dictionaries list them.
KeyOrder == <<"match_results", "odds", "circuits", "data_path">>

items(d) == SelectSeq(KeyOrder, LAMBDA k : k \in DOMAIN d)

\* a variant that merges into the base dictionary itself
CopyDictShared(heap, id) == [heap |-> heap, id |-> id]

\* utils/config.py 91: base_config.copy(), a new dictionary with the same items
CopyDict(heap, id) == [heap |-> Append(heap, heap[id]), id |-> Len(heap) + 1]

\* utils/config.py 95: merged[key] = the dictionary the recursive call returned
StoreMerged(r, merged, key) ==
    [heap |-> [r.heap EXCEPT ![merged] = SetItem(@, key, Ref(r.id))], id |-> merged]

RECURSIVE merge_configs(_, _, _)
RECURSIVE MergeItems(_, _, _)
RECURSIVE MergeItem(_, _, _)

\* utils/config.py 94-97: the body of the loop for one item of override_config
MergeItem(m, key, value) ==
    IF /\ key \in DOMAIN m.heap[m.id]
       /\ m.heap[m.id][key].kind = "dict"
       /\ value.kind = "dict"
    THEN StoreMerged(merge_configs(m.heap, m.heap[m.id][key].ref, value.ref), m.id, key)
    ELSE [heap |-> [m.heap EXCEPT ![m.id] = SetItem(@, key, value)], id |-> m.id]

\* utils/config.py 93-99: the loop over override_config.items(), then return merged
MergeItems(m, override_config, keys) ==
    IF keys = <<>> THEN m
    ELSE MergeItems(MergeItem(m, Head(keys), m.heap[override_config][Head(keys)]),
                    override_config, Tail(keys))

\* utils/config.py 79-99
merge_configs(heap, base_config, override_config) ==
    MergeItems(CopyDict(heap, base_config), override_config, items(heap[override_config]))

\* The value of a dictionary: its keys, and for each the scalar or the value of the
\* dictionary it refers to.
Leaf(s) == [kind |-> "scalar", val |-> s, sub |-> EmptyDict]

Node(t) == [kind |-> "dict", val |-> "", sub |-> t]

RECURSIVE ValueOf(_, _)
ValueOf(heap, id) ==
    [k \in DOMAIN heap[id] |->
        IF heap[id][k].kind = "dict" THEN Node(ValueOf(heap, heap[id][k].ref))
        ELSE Leaf(heap[id][k].val)]

\* A dictionary literal with the given value, put on the heap: the dictionaries of
\* its items first, then the dictionary itself.
RECURSIVE Alloc(_, _)

WithRef(r, d, key) == [heap |-> r.heap, d |-> SetItem(d, key, Ref(r.id))]

AllocItem(m, key, item) ==
    IF item.kind = "dict" THEN WithRef(Alloc(m.heap, item.sub), m.d, key)
    ELSE [heap |-> m.heap, d |-> SetItem(m.d, key, Scalar(item.val))]

RECURSIVE AllocItems(_, _, _)
AllocItems(m, tree, keys) ==
    IF keys = <<>> THEN m
    ELSE AllocItems(AllocItem(m, Head(keys), tree[Head(keys)]), tree, Tail(keys))

Allocated(m) == [heap |-> Append(m.heap, m.d), id |-> Len(m.heap) + 1]

Alloc(heap, tree) == Allocated(AllocItems([heap |-> heap, d |-> EmptyDict], tree, items(tree)))

\* tests/test_config.py 48-75: the call merge_configs(base, override)
MergeConfigs ==
    /\ conn.cls = "merge_configs"
    /\ call.op = "none"
    /\ call' = [op |-> "merge_configs", arg |-> NoSelection]
    /\ ret' = [raised |-> FALSE,
               heap |-> merge_configs(conn.heap, conn.base_config, conn.override_config).heap,
               merged |-> merge_configs(conn.heap, conn.base_config, conn.override_config).id]
    /\ UNCHANGED <<conn, fs, now>>

\* The values of the sections: dictionaries of scalars, and two with a dictionary
\* under data_path.
SectionValues ==
    {EmptyDict,
     SetItem(EmptyDict, "circuits", Leaf("v1")),
     SetItem(SetItem(EmptyDict, "circuits", Leaf("v2")), "data_path", Leaf("v1")),
     SetItem(EmptyDict, "data_path", Node(SetItem(EmptyDict, "circuits", Leaf("v1")))),
     SetItem(EmptyDict, "data_path", Node(SetItem(EmptyDict, "odds", Leaf("v2"))))}

\* What a configuration holds under a key: nothing, a scalar or a section.
Absent == [kind |-> "absent", val |-> "", sub |-> EmptyDict]

ItemChoices == {Absent, Leaf("v1")} \cup {Node(t) : t \in SectionValues}

ConfigValue(match_results, odds) ==
    [k \in {"match_results" : x \in {match_results} \ {Absent}}
           \cup {"odds" : x \in {odds} \ {Absent}} |->
        IF k = "match_results" THEN match_results ELSE odds]

ConfigValues == {ConfigValue(m, o) : m \in ItemChoices, o \in ItemChoices}

MergeInputOf(b, o) ==
    [cls |-> "merge_configs", heap |-> o.heap, base_config |-> b.id,
     override_config |-> o.id]

\* base and override as two dictionary literals
MergeInput(base, override) ==
    MergeInputOf(Alloc(<<>>, base), Alloc(Alloc(<<>>, base).heap, override))

\* merge_configs(config, config): one dictionary passed as both arguments
MergeInputSame(config) == MergeInputOf(Alloc(<<>>, config), Alloc(<<>>, config))

InitMerge ==
    /\ conn \in {MergeInput(base, override) : base \in ConfigValues, override \in ConfigValues}
                \cup {MergeInputSame(config) : config \in ConfigValues}
    /\ fs = NoFile
    /\ now = Noon
    /\ call = NoCall
    /\ ret = None

NextMerge == MergeConfigs

SpecMerge == InitMerge /\ [][NextMerge]_vars

(***************************************************************************)
(* Properties.                                                             *)
(***************************************************************************)
CsvClasses == {"LocalCSVOddsConnector", "LocalCSVMatchResultsConnector"}

CheckOps == {"check_availability", "audit_data_quality", "check_timestamps", "detect_leakage"}

\* The precedence of the rollup, lowest first.
Precedence == <<PASS, NOT_AVAILABLE, WARNING, FAIL>>

Rank(status) == CHOOSE r \in 1..Len(Precedence) : Precedence[r] = status

\* C1: run_full_audit sets overall_status to the maximum of the four check statuses
\* under FAIL > WARNING > NOT_AVAILABLE > PASS, for each of the 4^4 combinations, and
\* overall_status is one of the four values.
C1_RollupIsMaximum ==
    call.op = "run_full_audit" =>
        /\ ~ret.raised
        /\ \A k \in 1..Len(CheckTypes) : ret[CheckTypes[k]].status = conn.statuses[k]
        /\ ret.overall_status \in AuditStatus
        /\ \E k \in 1..Len(CheckTypes) : ret.overall_status = ret[CheckTypes[k]].status
        /\ \A k \in 1..Len(CheckTypes) :
              Rank(ret[CheckTypes[k]].status) <= Rank(ret.overall_status)

\* C1 witness: a report over a WARNING and a NOT_AVAILABLE check and no FAIL, rolled
\* up to WARNING.
C1_Witness ==
    /\ call.op = "run_full_audit"
    /\ ret.availability.status = NOT_AVAILABLE
    /\ ret.data_quality.status = PASS
    /\ ret.timestamps.status = NOT_AVAILABLE
    /\ ret.leakage_check.status = WARNING
    /\ ret.overall_status = WARNING

\* What the loop of LocalCSVOddsConnector.detect_leakage finds in one record.
IsOddsConnector == conn.cls = "LocalCSVOddsConnector"

AvailableAtOf(row) == ParseTs(get(row, "available_at"))

StartOf(row) == ParseTs(get(row, "match_start_time"))

SnapshotOf(row) == ParseTs(get(row, "snapshot_timestamp"))

\* available_at and match_start_time both parse and denote instants d seconds apart
Apart(row, d) ==
    /\ AvailableAtOf(row).valid /\ StartOf(row).valid
    /\ Comparable(AvailableAtOf(row), StartOf(row))
    /\ Utc(AvailableAtOf(row)) - Utc(StartOf(row)) = d

\* the snapshot of the record is known to be taken at or after the match start
SnapshotLate(row) ==
    /\ SnapshotOf(row).valid /\ StartOf(row).valid
    /\ Comparable(SnapshotOf(row), StartOf(row))
    /\ Utc(SnapshotOf(row)) >= Utc(StartOf(row))

\* C2: LocalCSVOddsConnector.detect_leakage over a single record returns FAIL when
\* available_at equals match_start_time, and PASS when available_at is one second
\* before match_start_time and the record has no other violation.
C2_LeakageBoundary ==
    (IsOddsConnector /\ call.op = "detect_leakage" /\ Len(conn.data) = 1) =>
        /\ Apart(conn.data[1], 0) => (~ret.raised /\ ret.status = FAIL)
        /\ (Apart(conn.data[1], -1) /\ ~SnapshotLate(conn.data[1])) =>
              (~ret.raised /\ ret.status = PASS)

\* The violations the loop collects from the records, each record taken alone.
PostMatchOddsOf(data) == Concat([i \in 1..Len(data) |-> OddsLeakRow(data[i]).post])

LateSnapshotsOf(data) == Concat([i \in 1..Len(data) |-> OddsLeakRow(data[i]).late])

\* C3: LocalCSVOddsConnector.detect_leakage returns FAIL for every non-empty record
\* set whose post_match_odds or late_snapshots violation set is non-empty.
C3_ViolationsFail ==
    (IsOddsConnector /\ call.op = "detect_leakage" /\ conn.data # <<>>
     /\ (PostMatchOddsOf(conn.data) # <<>> \/ LateSnapshotsOf(conn.data) # <<>>)) =>
        (~ret.raised /\ ret.status = FAIL)

\* The confirmed-leakage condition of a registered connector's detect_leakage: the
\* helper count whose being positive sets the status to FAIL.
LeakageConfirmed(c) ==
    CASE c.cls = "MatchResultsConnector" -> c.h.future_count > 0
      [] c.cls = "MatchStatsConnector" -> c.h.premature_count > 0
      [] c.cls = "OddsConnector" -> c.h.post_match_count > 0
      [] OTHER -> FALSE

\* C4: in every connector's detect_leakage, once a confirmed-leakage condition has set
\* the status to FAIL, the returned status is FAIL whatever the later heuristics count.
C4_FailSticks ==
    (call.op = "detect_leakage" /\ LeakageConfirmed(conn)) => ret.status = FAIL

\* A record of the data leaks: available_at at or after match_start_time, both parsed.
HasLeak(data) ==
    \E i \in 1..Len(data) :
        /\ AvailableAtOf(data[i]).valid /\ StartOf(data[i]).valid
        /\ Comparable(AvailableAtOf(data[i]), StartOf(data[i]))
        /\ Utc(AvailableAtOf(data[i])) >= Utc(StartOf(data[i]))

\* C5: for a LocalCSVOddsConnector whose data holds a leaking record, run_full_audit
\* reports overall_status FAIL, and the summary built from that report counts the
\* source under failed and lists the leakage issue in critical_issues.
C5_LeakFailsSource ==
    (IsOddsConnector /\ HasLeak(conn.data)) =>
        /\ call.op = "run_full_audit" => (~ret.raised /\ ret.overall_status = FAIL)
        /\ call.op = "_generate_summary" =>
              /\ ret.summary.failed = 1
              /\ \E i \in 1..Len(ret.results[1].value.leakage_check.issues) :
                    Contains(ret.summary.critical_issues,
                             OddsSource \o ": "
                             \o ret.results[1].value.leakage_check.issues[i])

\* C6: each of the four checks of a local CSV connector holding zero records returns,
\* without raising, NOT_AVAILABLE with a non-empty issues list; so too when the
\* configured CSV file exists and has no data rows.
C6_EmptyDataNotAvailable ==
    (conn.cls \in CsvClasses /\ conn.data = <<>> /\ call.op \in CheckOps) =>
        /\ ~ret.raised
        /\ ret.status = NOT_AVAILABLE
        /\ ret.issues # <<>>

\* The names of the sources the framework registers, in registration order.
RegisteredNames ==
    [i \in 1..Len(conn.connectors) |-> get_source_name(conn.connectors[i])]

Position(seq, x) == CHOOSE i \in 1..Len(seq) : seq[i] = x

Range(seq) == {seq[i] : i \in 1..Len(seq)}

RunAuditReturned == call.op = "run_audit" /\ ~ret.raised

\* C7: run_audit with a non-empty selection evaluates exactly the registered sources
\* named in the selection, each once and in registration order; unknown names are
\* skipped without error, and a selection of unknown names only returns
\* connectors_audited = [], results = {} and total_connectors = 0.
C7_SelectionFilters ==
    (call.op = "run_audit" /\ call.arg.given /\ call.arg.names # <<>>) =>
        /\ ~ret.raised
        /\ Range(ret.connectors_audited) = Range(RegisteredNames) \cap Range(call.arg.names)
        /\ \A i, j \in 1..Len(ret.connectors_audited) :
              i < j => Position(RegisteredNames, ret.connectors_audited[i])
                       < Position(RegisteredNames, ret.connectors_audited[j])
        /\ [n \in 1..Len(ret.results) |-> ret.results[n].key] = ret.connectors_audited
        /\ \A n \in 1..Len(ret.results) : ret.results[n].value.source = ret.results[n].key
        /\ ret.summary.total_connectors = Len(ret.connectors_audited)
        /\ Range(RegisteredNames) \cap Range(call.arg.names) = {} =>
              /\ ret.connectors_audited = <<>>
              /\ ret.results = <<>>
              /\ ret.summary.total_connectors = 0

\* C7 witness: a selection naming two registered sources against registration order
\* returned them in registration order.
C7_Witness ==
    /\ call.op = "run_audit"
    /\ call.arg = Selection(<<"venue_metadata", "match_results">>)
    /\ ret.connectors_audited = <<"match_results", "venue_metadata">>

\* The issues of the audited sources: <<n, k, i>> is issue i of check k of source n.
IssueSlots(results) ==
    UNION {{<<n, k, i>> : i \in 1..Len(results[n].value[CheckTypes[k]].issues)} :
              n \in 1..Len(results), k \in 1..Len(CheckTypes)}

FailedSlots(results) ==
    {s \in IssueSlots(results) : results[s[1]].value.overall_status = FAIL}

IssueOf(results, s) == results[s[1]].value[CheckTypes[s[2]]].issues[s[3]]

CriticalEntry(results, s) == results[s[1]].key \o ": " \o IssueOf(results, s)

AllEntry(results, s) ==
    results[s[1]].key \o "." \o CheckTypes[s[2]] \o ": " \o IssueOf(results, s)

Occurrences(seq, x) == Cardinality({j \in 1..Len(seq) : seq[j] = x})

\* C8: critical_issues holds one entry, prefixed with the source name, per issue of
\* each of the four checks of every source whose overall_status is FAIL, and nothing
\* else: no entry of a source that is not FAIL, none for a check without issues.
C8_CriticalIssuesContent ==
    RunAuditReturned =>
        LET slots == FailedSlots(ret.results)
            entries == {CriticalEntry(ret.results, s) : s \in slots}
        IN  /\ Len(ret.summary.critical_issues) = Cardinality(slots)
            /\ Range(ret.summary.critical_issues) = entries
            /\ \A e \in entries :
                  Occurrences(ret.summary.critical_issues, e)
                  = Cardinality({s \in slots : CriticalEntry(ret.results, s) = e})

\* C8 witness: a FAIL source with issues in two checks and none in another, audited
\* with a source that has issues and is not FAIL.
C8_Witness ==
    /\ RunAuditReturned
    /\ \E n, m \in 1..Len(ret.results) :
          /\ ret.results[n].value.overall_status = FAIL
          /\ ret.results[n].value.leakage_check.issues # <<>>
          /\ ret.results[n].value.data_quality.issues # <<>>
          /\ ret.results[n].value.availability.issues = <<>>
          /\ ret.results[m].value.overall_status = WARNING
          /\ ret.results[m].value.data_quality.issues # <<>>
    /\ ret.summary.critical_issues # <<>>

\* Source iteration order, then check order, then issue order.
Before(s, t) ==
    \/ s[1] < t[1]
    \/ s[1] = t[1] /\ s[2] < t[2]
    \/ s[1] = t[1] /\ s[2] = t[2] /\ s[3] < t[3]

\* The slot of the set S with p - 1 slots of S before it
Nth(S, p) == CHOOSE s \in S : Cardinality({t \in S : Before(t, s)}) = p - 1

\* C9: all_issues holds one entry 'source.check_type: issue' per issue of every check
\* of every audited source whatever its status, and all_issues and critical_issues
\* are both in source iteration order, then check order (availability, data_quality,
\* timestamps, leakage_check), then issue order inside the check.
C9_AllIssuesOrdered ==
    RunAuditReturned =>
        LET all == IssueSlots(ret.results)
            failed == FailedSlots(ret.results)
        IN  /\ ret.summary.all_issues
               = [p \in 1..Cardinality(all) |-> AllEntry(ret.results, Nth(all, p))]
            /\ ret.summary.critical_issues
               = [p \in 1..Cardinality(failed) |->
                     CriticalEntry(ret.results, Nth(failed, p))]

\* C9 witness: issues of a source that is not available, of a source with two issues
\* in one check, and of a FAIL source, listed together.
C9_Witness ==
    /\ RunAuditReturned
    /\ \E n, m, l \in 1..Len(ret.results) :
          /\ ret.results[n].value.overall_status = NOT_AVAILABLE
          /\ ret.results[n].value.availability.issues # <<>>
          /\ Len(ret.results[m].value.data_quality.issues) = 2
          /\ ret.results[l].value.overall_status = FAIL
    /\ Len(ret.summary.all_issues) > Len(ret.summary.critical_issues)
    /\ ret.summary.critical_issues # <<>>

SourcesWith(results, status) ==
    {n \in 1..Len(results) : results[n].value.overall_status = status}

\* C10: after run_audit every audited source is counted in the one bucket of its
\* overall_status, so passed + failed + warnings + not_available = total_connectors
\* = the number of entries of connectors_audited.
C10_TallyPartition ==
    RunAuditReturned =>
        /\ ret.summary.passed = Cardinality(SourcesWith(ret.results, PASS))
        /\ ret.summary.failed = Cardinality(SourcesWith(ret.results, FAIL))
        /\ ret.summary.warnings = Cardinality(SourcesWith(ret.results, WARNING))
        /\ ret.summary.not_available = Cardinality(SourcesWith(ret.results, NOT_AVAILABLE))
        /\ ret.summary.passed + ret.summary.failed + ret.summary.warnings
           + ret.summary.not_available = ret.summary.total_connectors
        /\ ret.summary.total_connectors = Len(ret.connectors_audited)

\* C10 witness: a run whose sources fall in all four buckets.
C10_Witness ==
    /\ RunAuditReturned
    /\ ret.summary.passed > 0
    /\ ret.summary.failed > 0
    /\ ret.summary.warnings > 0
    /\ ret.summary.not_available > 0

\* Some source the command audited has overall_status FAIL.
AuditedSourceFailed ==
    /\ ret.audit_results # None
    /\ \E n \in 1..Len(ret.audit_results.results) :
          ret.audit_results.results[n].value.overall_status = FAIL

CheckReturned == call.op \in CheckOps /\ ~ret.raised

\* C12: every result returned by one of the four checks of a connector has status
\* PASS if and only if its issues list is empty, for every record set and every value
\* of the helper checks.
C12_PassIffNoIssues ==
    CheckReturned => (ret.status = PASS <=> ret.issues = <<>>)

\* C12 witness: a check of a registered connector returned WARNING with two issues.
C12_Witness ==
    /\ CheckReturned
    /\ conn.cls = "MatchResultsConnector"
    /\ call.op = "audit_data_quality"
    /\ ret.status = WARNING
    /\ Len(ret.issues) = 2

\* The source of a connector, or a sub-source its check_availability looks at (a
\* circuit, a bookmaker, a licensed source, the CSV file), is empty or unreachable.
Unreachable(c, file) ==
    CASE c.cls \in CsvClasses -> ~Truthy(c.csv_path) \/ ~file.exists \/ c.data = <<>>
      [] c.cls = "MatchResultsConnector" ->
            \E i \in 1..Len(c.items) : c.items[i] \in c.h.unavailable
      [] c.cls = "MatchStatsConnector" -> ~c.h.stats_available
      [] c.cls = "OddsConnector" ->
            \E i \in 1..Len(OrDefault(c.items, "generic")) :
                OrDefault(c.items, "generic")[i] \in c.h.unavailable
      [] c.cls = "VenueConnector" -> ~c.h.venue_available
      [] c.cls = "LicenseConnector" ->
            \E i \in 1..Len(OrDefault(c.items, "default")) :
                OrDefault(c.items, "default")[i] \in c.h.unavailable

\* C13: check_availability of every connector returns NOT_AVAILABLE whenever the
\* source or a sub-source it checks is empty or unreachable, never FAIL, and no
\* status other than PASS or NOT_AVAILABLE.
C13_AvailabilityStatuses ==
    call.op = "check_availability" =>
        /\ ~ret.raised
        /\ ret.status \in {PASS, NOT_AVAILABLE}
        /\ Unreachable(conn, fs) => ret.status = NOT_AVAILABLE

RequiredFields(cls) ==
    IF cls = "LocalCSVOddsConnector" THEN OddsRequiredFields ELSE ResultsRequiredFields

\* The call is audit_data_quality of a local CSV connector that holds records.
QualityCall ==
    /\ call.op = "audit_data_quality"
    /\ conn.cls \in CsvClasses
    /\ conn.data # <<>>

FirstRecordLacksField ==
    \E f \in Range(RequiredFields(conn.cls)) : f \notin DOMAIN conn.data[1]

\* C14: in both local CSV connectors, when the first record lacks a required
\* field, audit_data_quality returns FAIL with a single missing-fields issue and
\* produces no result of the later checks (completeness, duplicates, circuits,
\* odds validity): only the required_fields check is reported.
C14_MissingFieldShortCircuits ==
    (QualityCall /\ FirstRecordLacksField) =>
        /\ ~ret.raised
        /\ ret.status = FAIL
        /\ ret.issues =
              <<"Missing required fields: "
                \o Join(", ", SelectSeq(RequiredFields(conn.cls),
                                        LAMBDA f : f \notin DOMAIN conn.data[1]))>>
        /\ DOMAIN ret.checks = {"required_fields"}
        /\ ret.checks.required_fields.status = "fail"

\* Two odds records without the bookmaker column, the first with odds below 1.0:
\* the check fails on the schema and says nothing of the odds.
C14_Witness ==
    /\ QualityCall /\ FirstRecordLacksField
    /\ conn.cls = "LocalCSVOddsConnector"
    /\ Len(conn.data) = 2
    /\ get(conn.data[1], "player1_odds") = "0.50"
    /\ ret.status = FAIL
    /\ Len(ret.issues) = 1

\* The non-fatal defects of a record set, stated on the records themselves.
EmptyRequiredField(cls, data) ==
    \E i \in 1..Len(data) : \E f \in Range(RequiredFields(cls)) : get(data[i], f) = ""

RepeatedMatchId(data) ==
    \E i, j \in 1..Len(data) : i < j /\ get(data[i], "match_id") = get(data[j], "match_id")

CircuitOutsideValid(data) ==
    \E i \in 1..Len(data) : get(data[i], "circuit") \notin {"ATP", "Challenger", "ITF"}

OddsBelowOneOrUnparsable(data) ==
    \E i \in 1..Len(data) : \E f \in {"player1_odds", "player2_odds"} :
        \/ ~float(get(data[i], f)).valid
        \/ float(get(data[i], f)).val < 100

NonFatalDefect(cls, data) ==
    \/ EmptyRequiredField(cls, data)
    \/ cls = "LocalCSVMatchResultsConnector"
       /\ (RepeatedMatchId(data) \/ CircuitOutsideValid(data))
    \/ cls = "LocalCSVOddsConnector" /\ OddsBelowOneOrUnparsable(data)

\* C15: in both local CSV connectors, for records whose first record has every
\* required field, audit_data_quality returns WARNING exactly when there is a
\* non-fatal defect (an empty required field; for match results a repeated
\* match_id or a circuit outside ATP, Challenger, ITF; for odds a player odds value
\* below 1.0 or unparsable) and PASS otherwise; it neither fails nor raises.
C15_WarningIffDefect ==
    (QualityCall /\ ~FirstRecordLacksField) =>
        /\ ~ret.raised
        /\ ret.status = IF NonFatalDefect(conn.cls, conn.data) THEN WARNING ELSE PASS

\* Two match results, the first clean, the second complete but for an empty score.
C15_Witness ==
    /\ QualityCall /\ ~FirstRecordLacksField
    /\ conn.cls = "LocalCSVMatchResultsConnector"
    /\ Len(conn.data) = 2
    /\ ~NonFatalDefect(conn.cls, <<conn.data[1]>>)
    /\ get(conn.data[2], "score") = ""
    /\ ~RepeatedMatchId(conn.data) /\ ~CircuitOutsideValid(conn.data)
    /\ ret.status = WARNING

TimestampFields(cls) ==
    IF cls = "LocalCSVOddsConnector"
    THEN {"snapshot_timestamp", "available_at", "match_start_time"}
    ELSE {"match_start_time", "available_at"}

\* Some record has a non-empty timestamp field that cannot be parsed.
HasUnparsableTimestamp(cls, data) ==
    \E i \in 1..Len(data) : \E f \in TimestampFields(cls) :
        get(data[i], f) # "" /\ ~ParseTs(get(data[i], f)).valid

\* C16: in both local CSV connectors, check_timestamps returns FAIL whenever a
\* record has a non-empty timestamp field that cannot be parsed, whatever the
\* other records hold (records with available_at after match_start_time included).
C16_InvalidTimestampFails ==
    (call.op = "check_timestamps" /\ conn.cls \in CsvClasses
     /\ HasUnparsableTimestamp(conn.cls, conn.data)) =>
        ~ret.raised /\ ret.status = FAIL

\* C17: for LocalCSVMatchResultsConnector, a record with parseable available_at and
\* match_start_time and available_at at or after match_start_time makes
\* detect_leakage return FAIL.
C17_ResultsLeakFails ==
    (call.op = "detect_leakage" /\ conn.cls = "LocalCSVMatchResultsConnector"
     /\ HasLeak(conn.data)) =>
        ~ret.raised /\ ret.status = FAIL

\* available_at of the record is known to be at or after the match start
AvailableLate(row) ==
    /\ AvailableAtOf(row).valid /\ StartOf(row).valid
    /\ Comparable(AvailableAtOf(row), StartOf(row))
    /\ Utc(AvailableAtOf(row)) >= Utc(StartOf(row))

OddsLeakageReturned == IsOddsConnector /\ call.op = "detect_leakage" /\ ~ret.raised

\* C18: LocalCSVOddsConnector.detect_leakage checks the two observation timestamps
\* of a record independently against match_start_time: a record whose
\* snapshot_timestamp is at or after the start is a late snapshot whether or not
\* its available_at parses, a record whose available_at is at or after the start
\* is a post-match violation whether or not its snapshot_timestamp parses, and a
\* record with both is in both categories.
C18_IndependentChecks ==
    (OddsLeakageReturned /\ conn.data # <<>>) =>
        /\ ret.checks.late_snapshots.late_count =
              Cardinality({i \in 1..Len(conn.data) : SnapshotLate(conn.data[i])})
        /\ ret.checks.post_match_odds.post_match_count =
              Cardinality({i \in 1..Len(conn.data) : AvailableLate(conn.data[i])})

\* The seconds from the second timestamp to the first.
SecondsBetween(observed, start) == Utc(ParseTs(observed)) - Utc(ParseTs(start))

\* C19: every violation recorded by LocalCSVOddsConnector.detect_leakage, in
\* post_match_odds and in late_snapshots, carries the match identifier, the two
\* compared timestamps and a delay_seconds equal to the observation timestamp minus
\* match_start_time in seconds, and that delay is positive.
C19_ViolationContents ==
    (OddsLeakageReturned /\ conn.data # <<>>) =>
        /\ \A n \in 1..Len(ret.checks.post_match_odds.violations) :
              LET v == ret.checks.post_match_odds.violations[n]
              IN  /\ {"match_id", "available_at", "match_start_time", "delay_seconds"}
                        \subseteq DOMAIN v
                  /\ v.delay_seconds = SecondsBetween(v.available_at, v.match_start_time)
                  /\ v.delay_seconds > 0
        /\ \A n \in 1..Len(ret.checks.late_snapshots.examples) :
              LET v == ret.checks.late_snapshots.examples[n]
              IN  /\ {"match_id", "snapshot_timestamp", "match_start_time", "delay_seconds"}
                        \subseteq DOMAIN v
                  /\ v.delay_seconds = SecondsBetween(v.snapshot_timestamp, v.match_start_time)
                  /\ v.delay_seconds > 0

\* The records R1 (available two hours before the start) and R2 (available one hour
\* after it), neither with a late snapshot.
IsR1R2(data) ==
    /\ Len(data) = 2
    /\ Apart(data[1], -7200) /\ ~SnapshotLate(data[1])
    /\ Apart(data[2], 3600) /\ ~SnapshotLate(data[2])

\* C20: for any non-empty record list the post_match_odds violations reported by
\* LocalCSVOddsConnector.detect_leakage are exactly the records with parseable
\* available_at and match_start_time and available_at at or after match_start_time,
\* one violation per such record in record order; for R1 (10:00Z against 12:00Z) and
\* R2 (13:00Z against 12:00Z) exactly one violation, R2's, with delay_seconds 3600
\* is reported and the status is FAIL.
C20_ExactViolations ==
    (IsOddsConnector /\ call.op = "detect_leakage" /\ conn.data # <<>>) =>
        /\ ~ret.raised
        /\ LET leaking == SelectSeq(conn.data, AvailableLate)
               violations == ret.checks.post_match_odds.violations
           IN  /\ Len(violations) = Len(leaking)
               /\ ret.checks.post_match_odds.post_match_count = Len(leaking)
               /\ \A n \in 1..Len(leaking) :
                     /\ violations[n].match_id = get(leaking[n], "match_id")
                     /\ violations[n].available_at = get(leaking[n], "available_at")
                     /\ violations[n].match_start_time = get(leaking[n], "match_start_time")
                     /\ violations[n].snapshot_timestamp
                            = get(leaking[n], "snapshot_timestamp")
        /\ IsR1R2(conn.data) =>
              /\ Len(ret.checks.post_match_odds.violations) = 1
              /\ ret.checks.post_match_odds.violations[1].available_at
                    = get(conn.data[2], "available_at")
              /\ ret.checks.post_match_odds.violations[1].delay_seconds = 3600
              /\ ret.status = FAIL

\* C21: for both local CSV connectors, check_timestamps and detect_leakage never
\* raise, whatever strings the timestamp fields hold (unparsable, empty, with an
\* offset or 'Z' next to timestamps without offset in the same record): a
\* structured result with a status is always returned.
C21_TimestampChecksNeverRaise ==
    (conn.cls \in CsvClasses /\ call.op \in {"check_timestamps", "detect_leakage"}) =>
        /\ ~ret.raised
        /\ ret.status \in AuditStatus

LocalCsvNames == <<"local_csv_match_results", "local_csv_odds">>

\* C22: a framework built from a configuration with local_csv_match_results and
\* local_csv_odds sections, run with the selection of those two names, audits both
\* sources: both names are in connectors_audited and results has a report for each.
C22_LocalCsvSourcesAudited ==
    (/\ call.op = "run_audit"
     /\ Range(LocalCsvNames) \subseteq DOMAIN conn.config
     /\ call.arg = Selection(LocalCsvNames)) =>
        /\ ~ret.raised
        /\ Range(LocalCsvNames) \subseteq Range(ret.connectors_audited)
        /\ Range(LocalCsvNames) \subseteq {ret.results[n].key : n \in 1..Len(ret.results)}

\* What a run returned, as far as the checks decide it: the audited names, and of
\* each report the overall status and each check's status and issues; the counts
\* of the summary.
Verdicts(result) ==
    [connectors_audited |-> result.connectors_audited,
     reports |-> [n \in 1..Len(result.results) |->
                    [key |-> result.results[n].key,
                     overall_status |-> result.results[n].value.overall_status,
                     checks |-> [k \in 1..Len(CheckTypes) |->
                                   [status |-> result.results[n].value[CheckTypes[k]].status,
                                    issues |-> result.results[n].value[CheckTypes[k]].issues]]]],
     counts |-> [f \in {"total_connectors", "passed", "failed", "warnings", "not_available"}
                   |-> result.summary[f]]]

ConfigLoadFails ==
    /\ call.op = "audit"
    /\ call.config
    /\ (~conn.config_file.exists \/ ~conn.config_file.readable)

\* C24: when loading the configuration fails (missing or unreadable file),
\* load_config raises and the audit command exits non-zero at that step: before a
\* connector is constructed, a source evaluated or a report written.
C24_ConfigFailureAborts ==
    ConfigLoadFails =>
        /\ load_config(conn.config_file).raised
        /\ ret.exit_code # 0
        /\ ret.stage = "load_config"
        /\ ret.audit_results = None

\* The command was given a configuration file that does not exist, with helper
\* checks that would have found a failed source, and stopped at loading.
C24_Witness ==
    /\ ConfigLoadFails
    /\ ~conn.config_file.exists
    /\ conn.h[3].post_match_count = 1
    /\ ret.exit_code = 1
    /\ ret.stage = "load_config"

FiveNames ==
    {"match_results", "match_stats", "pre_match_odds", "venue_metadata", "license_status"}

NoRepeats(seq) == \A i, j \in 1..Len(seq) : i # j => seq[i] # seq[j]

RECURSIVE IsMergeOf(_, _, _)
IsMergeOf(merged, base, override) ==
    /\ DOMAIN merged = DOMAIN base \cup DOMAIN override
    /\ \A k \in DOMAIN merged :
          IF k \in DOMAIN base /\ k \in DOMAIN override
             /\ base[k].kind = "dict" /\ override[k].kind = "dict"
          THEN /\ merged[k].kind = "dict"
               /\ IsMergeOf(merged[k].sub, base[k].sub, override[k].sub)
          ELSE IF k \in DOMAIN override THEN merged[k] = override[k]
          ELSE merged[k] = base[k]

\* C26: merge_configs(base, override) returns a mapping with the keys of both; a
\* key of both whose values are mappings is merged recursively, any other key of
\* override has override's value, a key of base alone keeps base's value; and base
\* is the same after the call as before, at every nesting level.
C26_MergeConfigs ==
    call.op = "merge_configs" =>
        /\ IsMergeOf(ValueOf(ret.heap, ret.merged),
                     ValueOf(conn.heap, conn.base_config),
                     ValueOf(conn.heap, conn.override_config))
        /\ ValueOf(ret.heap, conn.base_config) = ValueOf(conn.heap, conn.base_config)

\* base has a section with a dictionary under data_path, override the same section
\* with another dictionary there and a key base lacks: the merge went two levels down.
C26_Witness ==
    /\ call.op = "merge_configs"
    /\ conn.base_config # conn.override_config
    /\ ValueOf(conn.heap, conn.base_config)
          = ConfigValue(Node(SetItem(EmptyDict, "data_path",
                                     Node(SetItem(EmptyDict, "circuits", Leaf("v1"))))),
                        Leaf("v1"))
    /\ ValueOf(conn.heap, conn.override_config)
          = ConfigValue(Node(SetItem(EmptyDict, "data_path",
                                     Node(SetItem(EmptyDict, "odds", Leaf("v2"))))),
                        Absent)
    /\ DOMAIN ValueOf(ret.heap, ret.merged).match_results.sub.data_path.sub
          = {"circuits", "odds"}
    /\ "odds" \in DOMAIN ValueOf(ret.heap, ret.merged)

\* C27: run_audit given the empty list as selection evaluates no source, since only
\* sources named in a given selection are evaluated: connectors_audited and results
\* are empty.
C27_EmptySelectionAuditsNothing ==
    (call.op = "run_audit" /\ call.arg = Selection(<<>>)) =>
        /\ ~ret.raised
        /\ ret.connectors_audited = <<>>
        /\ ret.results = <<>>

\* The records whose match_start_time denotes an instant after the current one.
StartsAfter(data, utcnow) ==
    {i \in 1..Len(data) : StartOf(data[i]).valid /\ Utc(StartOf(data[i])) > utcnow}

\* C28: LocalCSVMatchResultsConnector.detect_leakage flags a record as future-dated
\* exactly when the instant its match_start_time denotes is later than the current
\* UTC instant, whatever offset it is written with, and for non-empty data returns
\* FAIL if and only if a record is flagged, PASS otherwise.
C28_FutureDatedByInstant ==
    (call.op = "detect_leakage" /\ conn.cls = "LocalCSVMatchResultsConnector"
     /\ conn.data # <<>>) =>
        /\ ~ret.raised
        /\ ret.checks.future_dates.future_count = Cardinality(StartsAfter(conn.data, now))
        /\ ret.status = IF StartsAfter(conn.data, now) # {} THEN FAIL ELSE PASS

\* C29: for a local CSV connector the availability verdict and the loaded records
\* never disagree, even if the CSV file is created, replaced or removed after the
\* connector was constructed: when check_availability reports NOT_AVAILABLE so do
\* the other three checks, and records_loaded is the number of records of the file
\* that exists when the check is made.
C29_AvailabilityAgreesWithData ==
    (call.op = "run_full_audit" /\ conn.cls \in CsvClasses) =>
        /\ ~ret.raised
        /\ ret.availability.status = NOT_AVAILABLE =>
              /\ ret.data_quality.status = NOT_AVAILABLE
              /\ ret.timestamps.status = NOT_AVAILABLE
              /\ ret.leakage_check.status = NOT_AVAILABLE
        /\ ret.availability.status # NOT_AVAILABLE =>
              /\ fs.exists
              /\ ret.availability.details.records_loaded = Len(fs.rows)

\* The source of report n has an issue of its own among the critical issues.
ContributesCritical(result, n) ==
    \E k \in 1..Len(CheckTypes) :
        \E i \in 1..Len(result.results[n].value[CheckTypes[k]].issues) :
            Contains(result.summary.critical_issues,
                     result.results[n].key \o ": "
                     \o result.results[n].value[CheckTypes[k]].issues[i])

\* C30: after any run_audit, summary.failed > 0 if and only if critical_issues is
\* non-empty: every source with overall_status FAIL contributes at least one
\* critical issue, and there is no critical issue without a failed source.
C30_FailedIffCritical ==
    call.op = "run_audit" =>
        /\ ~ret.raised
        /\ ret.summary.failed > 0 <=> ret.summary.critical_issues # <<>>
        /\ \A n \in 1..Len(ret.results) :
              ret.results[n].value.overall_status = FAIL => ContributesCritical(ret, n)
        /\ (\A n \in 1..Len(ret.results) : ret.results[n].value.overall_status # FAIL)
              => ret.summary.critical_issues = <<>>

\* A run with two failed sources and sources with warnings: critical issues from
\* both failed sources, fewer than all the issues.
C30_Witness ==
    /\ call.op = "run_audit"
    /\ ret.summary.failed = 2
    /\ ret.summary.warnings > 0
    /\ ret.summary.critical_issues # <<>>
    /\ Len(ret.summary.critical_issues) < Len(ret.summary.all_issues)

====
